---- MODULE Spec2Model ----
(***************************************************************************)
(* Model of the payment reconciliation engine of kpdcl-payment-recon:      *)
(* ReconciliationService.performDetailedReconciliation and its helpers     *)
(* (src/server.js).                                                        *)
(*                                                                         *)
(* Amounts are integers in paise (1/100 rupee); dates are integer day      *)
(* numbers; a match score is an integer numerator over ScoreDen(T), so     *)
(* that every score the code can produce is represented exactly.           *)
(***************************************************************************)
EXTENDS Integers, Sequences, FiniteSets, TLC

(* ---------------------------- bounds ----------------------------------- *)
\* rows in the CORPORTAL result set, rows in the CCB result set, rows in both
MaxCorp == 2
MaxCCB == 2
MaxRecords == 3

\* findBestDateMatch on its own: posting rows of one consumer and mode
MaxCandidates == 3
\* the helpers on their own: last day number, largest daysTolerance
HelperMaxDay == 3
HelperMaxTolerance == 3

Consumers == {"C1", "C2"}
Modes == {"BANK_COUNTER", "BBPS"}
\* 0.99 and 1.00 rupees: one paisa apart, which is within 1% of 1.00 but not of
\* 0.99, so that with the tolerances below every amount tier of the score occurs
Amounts == {99, 100}
Days == {0, 1}
AmountTolerances == {0, 1}
DaysTolerances == {0, 1}
\* the helpers on their own: 1000.00, 1000.01, 1005.00 and 1020.00 rupees as well
HelperAmounts == {99, 100, 100000, 100001, 100500, 102000}
HelperAmountTolerances == {0, 1, 100}

(* ---------------------------- state ------------------------------------ *)
VARIABLES
  corportalPayments,     \* rows fetched from CORPORTAL_PAYMENTS (intake)
  ccbPayments,           \* rows fetched from CCB_PAYMENTS (posting)
  amountTolerance,       \* options.amountTolerance, in paise
  daysTolerance,         \* options.daysTolerance
  includePartialMatches, \* options.includePartialMatches
  pc,                    \* position inside performDetailedReconciliation
  idx,                   \* position of the running forEach
  matches,               \* results.matches
  partialMatches,        \* results.partialMatches
  exceptions,            \* results.exceptions
  summary,               \* results.summary
  matchedCorportalIds,   \* Set of CORPORTAL_ROWID
  matchedCCBIds,         \* Set of CCB_ROWID
  unmatchedCorportal,    \* fuzzy phase: intake rows left by the exact phase
  unmatchedCCB,          \* fuzzy phase: posting rows left by the exact phase
  ret,                   \* value returned by a helper called on its own
  fetch,                 \* state of the two promises handed to Promise.all
  firstReport,           \* results of an earlier call on the same rows and options
  req,                   \* the HTTP request being served
  res,                   \* the HTTP response sent for it
  args,                  \* fromDate and toDate handed to the engine
  db                     \* the DatabaseManager singleton and the driver's pools

vars == <<corportalPayments, ccbPayments, amountTolerance, daysTolerance,
          includePartialMatches, pc, idx, matches, partialMatches, exceptions,
          summary, matchedCorportalIds, matchedCCBIds, unmatchedCorportal,
          unmatchedCCB, ret, fetch, firstReport, req, res, args, db>>

(* ---------------------------- helpers ---------------------------------- *)
Abs(x) == IF x < 0 THEN -x ELSE x

Null == [null |-> TRUE]

Infinity == 999999

NaN == -1

\* moment(date2).diff(moment(date1), 'days') on whole-day dates
calculateDateDifference(date1, date2) == date2 - date1

calculateDaysDifference(date1, date2) == Abs(date2 - date1)

\* `${CONSUMER_ID}-${AMOUNT}-${PAYMENT_MODE}`
exactKey(payment) == <<payment.CONSUMER_ID, payment.AMOUNT, payment.PAYMENT_MODE>>

\* Math.round(parseFloat(payment.AMOUNT)), the amount being in paise (358)
amountKey(payment) == (payment.AMOUNT + 50) \div 100

\* the exact and the byAmount index; byConsumer and byDate are built the same
\* way and, like byAmount, never read by the engine
createPaymentIndex(payments) ==
  [exact |-> [k \in {exactKey(payments[j]) : j \in DOMAIN payments} |->
                SelectSeq(payments, LAMBDA p : exactKey(p) = k)],
   byAmount |-> [k \in {amountKey(payments[j]) : j \in DOMAIN payments} |->
                   SelectSeq(payments, LAMBDA p : amountKey(p) = k)]]

\* daysDiff <= smallestDateDiff: among equally close candidates the last one wins
RECURSIVE BestDateLoop_LastWins(_, _, _, _, _, _)
BestDateLoop_LastWins(corportalDate, ccbMatches, daysTolerance_, k, bestMatch, smallestDateDiff) ==
  IF k > Len(ccbMatches) THEN bestMatch
  ELSE LET ccbPayment == ccbMatches[k]
           daysDiff == Abs(corportalDate - ccbPayment.POSTING_DATE)
       IN IF daysDiff <= daysTolerance_ /\ daysDiff <= smallestDateDiff
          THEN BestDateLoop_LastWins(corportalDate, ccbMatches, daysTolerance_, k + 1,
                                     ccbPayment, daysDiff)
          ELSE BestDateLoop_LastWins(corportalDate, ccbMatches, daysTolerance_, k + 1,
                                     bestMatch, smallestDateDiff)

RECURSIVE BestDateLoop(_, _, _, _, _, _)
BestDateLoop(corportalDate, ccbMatches, daysTolerance_, k, bestMatch, smallestDateDiff) ==
  IF k > Len(ccbMatches) THEN bestMatch
  ELSE LET ccbPayment == ccbMatches[k]
           daysDiff == Abs(corportalDate - ccbPayment.POSTING_DATE)
       IN IF daysDiff <= daysTolerance_ /\ daysDiff < smallestDateDiff
          THEN BestDateLoop(corportalDate, ccbMatches, daysTolerance_, k + 1,
                            ccbPayment, daysDiff)
          ELSE BestDateLoop(corportalDate, ccbMatches, daysTolerance_, k + 1,
                            bestMatch, smallestDateDiff)

\* daysDiff < daysTolerance in place of daysDiff <= daysTolerance
findBestDateMatch_StrictWindow(corportalPayment, ccbMatches, daysTolerance_) ==
  BestDateLoop(corportalPayment.PAYMENT_DATE, ccbMatches, daysTolerance_ - 1, 1,
               Null, Infinity)

findBestDateMatch(corportalPayment, ccbMatches, daysTolerance_) ==
  BestDateLoop(corportalPayment.PAYMENT_DATE, ccbMatches, daysTolerance_, 1,
               Null, Infinity)

\* A score s of the code is the integer s * ScoreDen(daysTolerance).
ScoreDen(daysTolerance_) == 100 * (IF daysTolerance_ <= 0 THEN 1 ELSE daysTolerance_)

\* the two amount tiers tested by two independent ifs: both fire on a close amount
calculateMatchScore_BothTiers(corpPayment, ccbPayment, corpAmount, ccbAmount, corpDate, ccbDate, amountTolerance_, daysTolerance_) ==
  LET den == ScoreDen(daysTolerance_)
      consumerScore == IF corpPayment.CONSUMER_ID = ccbPayment.CONSUMER_ID
                       THEN (40 * den) \div 100 ELSE 0
      modeScore == IF corpPayment.PAYMENT_MODE = ccbPayment.PAYMENT_MODE
                   THEN (30 * den) \div 100 ELSE 0
      amountDiff == Abs(corpAmount - ccbAmount)
      amountScore == (IF amountDiff <= amountTolerance_ THEN (25 * den) \div 100 ELSE 0)
                     + (IF 100 * amountDiff <= corpAmount THEN (15 * den) \div 100 ELSE 0)
      daysDiff == Abs(corpDate - ccbDate)
  IN IF daysDiff <= daysTolerance_
     THEN IF daysTolerance_ = 0
          THEN NaN
          ELSE consumerScore + modeScore + amountScore + 5 * (daysTolerance_ - daysDiff)
     ELSE consumerScore + modeScore + amountScore

calculateMatchScore(corpPayment, ccbPayment, corpAmount, ccbAmount, corpDate, ccbDate, amountTolerance_, daysTolerance_) ==
  LET den == ScoreDen(daysTolerance_)
      consumerScore == IF corpPayment.CONSUMER_ID = ccbPayment.CONSUMER_ID
                       THEN (40 * den) \div 100 ELSE 0
      modeScore == IF corpPayment.PAYMENT_MODE = ccbPayment.PAYMENT_MODE
                   THEN (30 * den) \div 100 ELSE 0
      amountDiff == Abs(corpAmount - ccbAmount)
      amountScore == IF amountDiff <= amountTolerance_ THEN (25 * den) \div 100
                     ELSE IF 100 * amountDiff <= corpAmount THEN (15 * den) \div 100
                     ELSE 0
      daysDiff == Abs(corpDate - ccbDate)
  IN IF daysDiff <= daysTolerance_
     THEN IF daysTolerance_ = 0
          THEN NaN   \* 0.05 * (1 - 0/0)
          ELSE consumerScore + modeScore + amountScore + 5 * (daysTolerance_ - daysDiff)
     ELSE consumerScore + modeScore + amountScore

\* Array.prototype.sort((a, b) => b.score - a.score): stable, descending
RECURSIVE InsertByScore(_, _)
InsertByScore(sorted, m) ==
  IF sorted = <<>> THEN <<m>>
  ELSE IF m.score > Head(sorted).score THEN <<m>> \o sorted
       ELSE <<Head(sorted)>> \o InsertByScore(Tail(sorted), m)

RECURSIVE SortByScore(_)
SortByScore(ms) ==
  IF ms = <<>> THEN <<>>
  ELSE InsertByScore(SortByScore(SubSeq(ms, 1, Len(ms) - 1)), ms[Len(ms)])

RECURSIVE ScoreAll(_, _, _, _, _)
ScoreAll(corportalPayment, ccbs, amountTolerance_, daysTolerance_, k) ==
  IF k > Len(ccbs) THEN <<>>
  ELSE LET ccbPayment == ccbs[k]
           score == calculateMatchScore(corportalPayment, ccbPayment,
                                        corportalPayment.AMOUNT, ccbPayment.AMOUNT,
                                        corportalPayment.PAYMENT_DATE,
                                        ccbPayment.POSTING_DATE,
                                        amountTolerance_, daysTolerance_)
           rest == ScoreAll(corportalPayment, ccbs, amountTolerance_, daysTolerance_, k + 1)
       IN IF score > 0 THEN <<[payment |-> ccbPayment, score |-> score]>> \o rest
          ELSE rest

findFuzzyMatches(corportalPayment, ccbs, amountTolerance_, daysTolerance_) ==
  SortByScore(ScoreAll(corportalPayment, ccbs, amountTolerance_, daysTolerance_, 1))

\* a threshold of 0.7
MinConfidence_Low(daysTolerance_) == (70 * ScoreDen(daysTolerance_)) \div 100

\* a threshold of 0.9
MinConfidence_High(daysTolerance_) == (90 * ScoreDen(daysTolerance_)) \div 100

\* bestMatch.score >= 0.8
MinConfidence(daysTolerance_) == (80 * ScoreDen(daysTolerance_)) \div 100

\* the comparison with the settlement allowance made inclusive
requiresActionCheck_Inclusive(payment, now) ==
  LET daysSincePayment == calculateDaysDifference(payment.PAYMENT_DATE, now)
      settlementDays == IF payment.PAYMENT_MODE = "BANK_COUNTER" THEN 1 ELSE 2
  IN daysSincePayment >= settlementDays

\* 518-523; now is the day new Date() gives
requiresActionCheck(payment, now) ==
  LET daysSincePayment == calculateDaysDifference(payment.PAYMENT_DATE, now)
      settlementDays == IF payment.PAYMENT_MODE = "BANK_COUNTER" THEN 1 ELSE 2
  IN daysSincePayment > settlementDays

RECURSIVE SumAmount(_)
SumAmount(payments) ==
  IF payments = <<>> THEN 0 ELSE Head(payments).AMOUNT + SumAmount(Tail(payments))

(* ---------------------------- inputs ----------------------------------- *)
ConsumerOrder == <<"C1", "C2">>

ConsumerRank(c) == CHOOSE r \in DOMAIN ConsumerOrder : ConsumerOrder[r] = c

CorportalRows ==
  [CONSUMER_ID : Consumers, PAYMENT_MODE : Modes, AMOUNT : Amounts, PAYMENT_DATE : Days]

CCBRows ==
  [CONSUMER_ID : Consumers, PAYMENT_MODE : Modes, AMOUNT : Amounts, POSTING_DATE : Days]

\* ORDER BY PAYMENT_DATE, CONSUMER_ID
CorportalOrdered(rows) ==
  \A j \in 1 .. Len(rows) - 1 :
    \/ rows[j].PAYMENT_DATE < rows[j + 1].PAYMENT_DATE
    \/ /\ rows[j].PAYMENT_DATE = rows[j + 1].PAYMENT_DATE
       /\ ConsumerRank(rows[j].CONSUMER_ID) <= ConsumerRank(rows[j + 1].CONSUMER_ID)

\* ORDER BY POSTING_DATE, CONSUMER_NO
CCBOrdered(rows) ==
  \A j \in 1 .. Len(rows) - 1 :
    \/ rows[j].POSTING_DATE < rows[j + 1].POSTING_DATE
    \/ /\ rows[j].POSTING_DATE = rows[j + 1].POSTING_DATE
       /\ ConsumerRank(rows[j].CONSUMER_ID) <= ConsumerRank(rows[j + 1].CONSUMER_ID)

\* result sets of the two queries; ROWID is unique within its table
CorportalResultSets ==
  {[j \in DOMAIN rows |->
      [CONSUMER_ID |-> rows[j].CONSUMER_ID, PAYMENT_MODE |-> rows[j].PAYMENT_MODE,
       AMOUNT |-> rows[j].AMOUNT, PAYMENT_DATE |-> rows[j].PAYMENT_DATE,
       CORPORTAL_ROWID |-> j]] :
     rows \in {r \in UNION {[1 .. n -> CorportalRows] : n \in 0 .. MaxCorp} :
                 CorportalOrdered(r)}}

CCBResultSets ==
  {[j \in DOMAIN rows |->
      [CONSUMER_ID |-> rows[j].CONSUMER_ID, PAYMENT_MODE |-> rows[j].PAYMENT_MODE,
       AMOUNT |-> rows[j].AMOUNT, POSTING_DATE |-> rows[j].POSTING_DATE,
       CCB_ROWID |-> j]] :
     rows \in {r \in UNION {[1 .. n -> CCBRows] : n \in 0 .. MaxCCB} :
                 CCBOrdered(r)}}

(* ---------------------------- the engine ------------------------------- *)
\* the defaults of the options (158-162): 0.01 in paise, 2 days
DefaultAmountTolerance == 1

DefaultDaysTolerance == 2

\* the days new Date() can give during a call
NowDays == {2, 3}

\* both queries have returned their rows
BothResolved == [corportal |-> "resolved", ccb |-> "resolved", first |-> "none"]

\* src/server.js 198-232: both result sets are in, results is initialised,
\* totals are summed, the claimed-id sets are empty
InitSummary(corp, ccb, now) ==
  [totalCorportalPayments |-> Len(corp),
   totalCCBPayments |-> Len(ccb),
   totalCorportalAmount |-> SumAmount(corp),
   totalCCBAmount |-> SumAmount(ccb),
   matchedPayments |-> 0,
   matchedAmount |-> 0,
   unmatchedCorportal |-> 0,
   unmatchedCCB |-> 0,
   partialMatches |-> 0,
   processingDate |-> now]

Init ==
  /\ corportalPayments \in CorportalResultSets
  /\ ccbPayments \in CCBResultSets
  /\ Len(corportalPayments) + Len(ccbPayments) <= MaxRecords
  /\ amountTolerance \in AmountTolerances
  /\ daysTolerance \in DaysTolerances
  /\ includePartialMatches \in BOOLEAN
  /\ pc = "exact"
  /\ idx = 1
  /\ matches = <<>>
  /\ partialMatches = <<>>
  /\ exceptions = <<>>
  /\ \E now \in NowDays : summary = InitSummary(corportalPayments, ccbPayments, now)
  /\ matchedCorportalIds = {}
  /\ matchedCCBIds = {}
  /\ unmatchedCorportal = <<>>
  /\ unmatchedCCB = <<>>
  /\ ret = Null
  /\ fetch = BothResolved
  /\ firstReport = Null
  /\ req = Null
  /\ res = Null
  /\ args = Null
  /\ db = Null

\* the state of results before the exact loop
Blank ==
  /\ idx = 1
  /\ matches = <<>>
  /\ partialMatches = <<>>
  /\ exceptions = <<>>
  /\ \E now \in NowDays : summary = InitSummary(corportalPayments, ccbPayments, now)
  /\ matchedCorportalIds = {}
  /\ matchedCCBIds = {}
  /\ unmatchedCorportal = <<>>
  /\ unmatchedCCB = <<>>
  /\ ret = Null
  /\ fetch = BothResolved
  /\ firstReport = Null
  /\ req = Null
  /\ res = Null
  /\ args = Null
  /\ db = Null

\* the filter keeps every row
FilterUnmatchedCorportal_KeepAll(payments, ids) == payments

\* payments.filter(p => !matchedCorportalIds.has(p.CORPORTAL_ROWID))
FilterUnmatchedCorportal(payments, ids) ==
  SelectSeq(payments, LAMBDA p : p.CORPORTAL_ROWID \notin ids)

\* the posting filter keeps every row
FilterUnmatchedCCB_KeepAll(payments, ids) == payments

\* payments.filter(p => !matchedCCBIds.has(p.CCB_ROWID))
FilterUnmatchedCCB(payments, ids) ==
  SelectSeq(payments, LAMBDA p : p.CCB_ROWID \notin ids)

\* the counters of an EXACT match without the amount
CountExactMatch_NoAmount(s, corpPayment) == [s EXCEPT !.matchedPayments = @ + 1]

\* summary.matchedPayments++; summary.matchedAmount += parseFloat(AMOUNT) (254-255)
CountExactMatch(s, corpPayment) ==
  [s EXCEPT !.matchedPayments = @ + 1, !.matchedAmount = @ + corpPayment.AMOUNT]

\* summary.partialMatches++ (293)
CountFuzzyMatch(s) == [s EXCEPT !.partialMatches = @ + 1]

\* the candidates the exact loop hands to findBestDateMatch (ccbIndex.exact[exactKey])
ExactCandidates(corpPayment, ccbs) ==
  LET ccbIndex == createPaymentIndex(ccbs)
      key == exactKey(corpPayment)
  IN IF key \in DOMAIN ccbIndex.exact THEN ccbIndex.exact[key] ELSE <<>>

\* one iteration of corportalPayments.forEach (exact matching, 235-258)
ExactStep ==
  /\ pc = "exact"
  /\ idx <= Len(corportalPayments)
  /\ LET corpPayment == corportalPayments[idx]
         ccbMatches == ExactCandidates(corpPayment, ccbPayments)
         bestMatch == IF Len(ccbMatches) > 0
                      THEN findBestDateMatch(corpPayment, ccbMatches, daysTolerance)
                      ELSE Null
     IN IF bestMatch # Null
        THEN /\ matches' = Append(matches,
                  [type |-> "EXACT_MATCH",
                   corportalPayment |-> corpPayment,
                   ccbPayment |-> bestMatch,
                   matchScore |-> ScoreDen(daysTolerance),
                   dateDifference |-> calculateDateDifference(corpPayment.PAYMENT_DATE,
                                                              bestMatch.POSTING_DATE)])
             /\ matchedCorportalIds' = matchedCorportalIds \cup {corpPayment.CORPORTAL_ROWID}
             /\ matchedCCBIds' = matchedCCBIds \cup {bestMatch.CCB_ROWID}
             /\ summary' = CountExactMatch(summary, corpPayment)
        ELSE UNCHANGED <<matches, matchedCorportalIds, matchedCCBIds, summary>>
  /\ idx' = idx + 1
  /\ UNCHANGED <<req, res, args, db, fetch, firstReport, corportalPayments, ccbPayments, amountTolerance, daysTolerance,
                 includePartialMatches, pc, partialMatches, exceptions,
                 unmatchedCorportal, unmatchedCCB, ret>>

\* the fuzzy phase entered while the exact loop still has intake rows to visit
StartFuzzy_Early ==
  /\ pc = "exact"
  /\ includePartialMatches
  /\ unmatchedCorportal' = FilterUnmatchedCorportal(corportalPayments, matchedCorportalIds)
  /\ unmatchedCCB' = FilterUnmatchedCCB(ccbPayments, matchedCCBIds)
  /\ pc' = "fuzzy"
  /\ idx' = 1
  /\ UNCHANGED <<req, res, args, db, fetch, firstReport, corportalPayments, ccbPayments, amountTolerance, daysTolerance,
                 includePartialMatches, matches, partialMatches, exceptions, summary,
                 matchedCorportalIds, matchedCCBIds, ret>>

\* the pools of the fuzzy phase (261-265)
StartFuzzy ==
  /\ pc = "exact"
  /\ idx > Len(corportalPayments)
  /\ includePartialMatches
  /\ unmatchedCorportal' = FilterUnmatchedCorportal(corportalPayments, matchedCorportalIds)
  /\ unmatchedCCB' = FilterUnmatchedCCB(ccbPayments, matchedCCBIds)
  /\ pc' = "fuzzy"
  /\ idx' = 1
  /\ UNCHANGED <<req, res, args, db, fetch, firstReport, corportalPayments, ccbPayments, amountTolerance, daysTolerance,
                 includePartialMatches, matches, partialMatches, exceptions, summary,
                 matchedCorportalIds, matchedCCBIds, ret>>

\* one iteration of unmatchedCorportal.forEach (fuzzy matching, 268-296)
FuzzyStep ==
  /\ pc = "fuzzy"
  /\ idx <= Len(unmatchedCorportal)
  /\ LET corpPayment == unmatchedCorportal[idx]
         fuzzyMatches == findFuzzyMatches(corpPayment, unmatchedCCB,
                                          amountTolerance, daysTolerance)
     IN IF Len(fuzzyMatches) > 0 /\ fuzzyMatches[1].score >= MinConfidence(daysTolerance)
        THEN LET bestMatch == fuzzyMatches[1]
             IN /\ partialMatches' = Append(partialMatches,
                     [type |-> "FUZZY_MATCH",
                      corportalPayment |-> corpPayment,
                      ccbPayment |-> bestMatch.payment,
                      matchScore |-> bestMatch.score,
                      amountDifference |-> Abs(corpPayment.AMOUNT - bestMatch.payment.AMOUNT)])
                /\ matchedCorportalIds' =
                     matchedCorportalIds \cup {corpPayment.CORPORTAL_ROWID}
                /\ matchedCCBIds' = matchedCCBIds \cup {bestMatch.payment.CCB_ROWID}
                /\ summary' = CountFuzzyMatch(summary)
        ELSE UNCHANGED <<partialMatches, matchedCorportalIds, matchedCCBIds, summary>>
  /\ idx' = idx + 1
  /\ UNCHANGED <<req, res, args, db, fetch, firstReport, corportalPayments, ccbPayments, amountTolerance, daysTolerance,
                 includePartialMatches, pc, matches, exceptions, unmatchedCorportal,
                 unmatchedCCB, ret>>

\* the type of the posting-side exception pasted into the intake-side one
UnmatchedCorportalException_WrongType(p, now) ==
  [type |-> "UNMATCHED_CCB",
   payment |-> p,
   daysSince |-> calculateDaysDifference(p.PAYMENT_DATE, now),
   requiresAction |-> requiresActionCheck(p, now)]

UnmatchedCorportalException(p, now) ==
  [type |-> "UNMATCHED_CORPORTAL",
   payment |-> p,
   daysSince |-> calculateDaysDifference(p.PAYMENT_DATE, now),
   requiresAction |-> requiresActionCheck(p, now)]

UnmatchedCCBException(p, now) ==
  [type |-> "UNMATCHED_CCB",
   payment |-> p,
   daysSince |-> calculateDaysDifference(p.POSTING_DATE, now),
   requiresAction |-> TRUE]

\* the exceptions of the intake side alone
BuildExceptions_IntakeOnly(corp, ccb, corpIds, ccbIds, now) ==
  LET leftCorp == FilterUnmatchedCorportal(corp, corpIds)
  IN [j \in 1 .. Len(leftCorp) |-> UnmatchedCorportalException(leftCorp[j], now)]

BuildExceptions(corp, ccb, corpIds, ccbIds, now) ==
  LET leftCorp == FilterUnmatchedCorportal(corp, corpIds)
      leftCCB == FilterUnmatchedCCB(ccb, ccbIds)
  IN [j \in 1 .. Len(leftCorp) |-> UnmatchedCorportalException(leftCorp[j], now)]
     \o [j \in 1 .. Len(leftCCB) |-> UnmatchedCCBException(leftCCB[j], now)]

\* final exceptions and unmatched counts (299-328)
FinalExceptions ==
  /\ \/ pc = "fuzzy" /\ idx > Len(unmatchedCorportal)
     \/ pc = "exact" /\ idx > Len(corportalPayments) /\ ~includePartialMatches
  /\ \E now \in {d \in NowDays : d >= summary.processingDate} :
       LET exs == BuildExceptions(corportalPayments, ccbPayments,
                                  matchedCorportalIds, matchedCCBIds, now)
       IN /\ exceptions' = exs
          /\ summary' = [summary EXCEPT
               !.unmatchedCorportal =
                   Len(SelectSeq(exs, LAMBDA e : e.type = "UNMATCHED_CORPORTAL")),
               !.unmatchedCCB =
                   Len(SelectSeq(exs, LAMBDA e : e.type = "UNMATCHED_CCB"))]
  /\ pc' = "done"
  /\ UNCHANGED <<req, res, args, db, fetch, firstReport, corportalPayments, ccbPayments, amountTolerance, daysTolerance,
                 includePartialMatches, idx, matches, partialMatches,
                 matchedCorportalIds, matchedCCBIds, unmatchedCorportal, unmatchedCCB,
                 ret>>

Next == ExactStep \/ StartFuzzy \/ FuzzyStep \/ FinalExceptions

Spec == Init /\ [][Next]_vars

(* ---------------------------- two calls on the same rows -------------- *)
\* the object performDetailedReconciliation returns (328)
Report ==
  [summary |-> summary, matches |-> matches, exceptions |-> exceptions,
   partialMatches |-> partialMatches]

\* a call on at most one intake row and one posting row
InitTwice ==
  /\ corportalPayments \in {r \in CorportalResultSets : Len(r) <= 1}
  /\ ccbPayments \in {r \in CCBResultSets : Len(r) <= 1}
  /\ amountTolerance \in AmountTolerances
  /\ daysTolerance \in DaysTolerances
  /\ includePartialMatches \in BOOLEAN
  /\ pc = "exact"
  /\ Blank

\* the first call has returned; a second call with the same arguments finds
\* the same rows and starts, no earlier than the first one did (203-232)
RunAgain ==
  /\ pc = "done"
  /\ firstReport = Null
  /\ req = Null
  /\ res = Null
  /\ args = Null
  /\ db = Null
  /\ firstReport' = Report
  /\ \E now \in {d \in NowDays : d >= summary.processingDate} :
       summary' = InitSummary(corportalPayments, ccbPayments, now)
  /\ pc' = "exact"
  /\ idx' = 1
  /\ matches' = <<>>
  /\ partialMatches' = <<>>
  /\ exceptions' = <<>>
  /\ matchedCorportalIds' = {}
  /\ matchedCCBIds' = {}
  /\ unmatchedCorportal' = <<>>
  /\ unmatchedCCB' = <<>>
  /\ UNCHANGED <<req, res, args, db, fetch, corportalPayments, ccbPayments, amountTolerance, daysTolerance,
                 includePartialMatches, ret>>

NextTwice == Next \/ RunAgain

SpecTwice == InitTwice /\ [][NextTwice]_vars

(* ---------------------------- the two fetches -------------------------- *)
\* both queries are under way; order lists the queries as they settle
BothPending ==
  [corportal |-> "pending", ccb |-> "pending", first |-> "none", order |-> <<>>]

\* a combinator that waits for both promises to settle, whatever the outcome
PromiseAll_AllSettled(f) ==
  IF f.corportal # "pending" /\ f.ccb # "pending" THEN "fulfilled" ELSE "pending"

\* Promise.all (198-201): rejected as soon as one promise is, with the reason
\* of the first rejection; fulfilled once both are
PromiseAll(f) ==
  IF f.first # "none" THEN "rejected"
  ELSE IF f.corportal = "resolved" /\ f.ccb = "resolved" THEN "fulfilled"
  ELSE "pending"

\* performDetailedReconciliation is called: the two queries are started and
\* the call waits for both; results does not exist yet
InitFetch ==
  /\ corportalPayments \in {r \in CorportalResultSets : Len(r) <= 1}
  /\ ccbPayments \in {r \in CCBResultSets : Len(r) <= 1}
  /\ amountTolerance \in AmountTolerances
  /\ daysTolerance \in DaysTolerances
  /\ includePartialMatches \in BOOLEAN
  /\ pc = "fetch"
  /\ fetch = BothPending
  /\ idx = 1
  /\ matches = <<>>
  /\ partialMatches = <<>>
  /\ exceptions = <<>>
  /\ summary = Null
  /\ matchedCorportalIds = {}
  /\ matchedCCBIds = {}
  /\ unmatchedCorportal = <<>>
  /\ unmatchedCCB = <<>>
  /\ ret = Null
  /\ firstReport = Null
  /\ req = Null
  /\ res = Null
  /\ args = Null
  /\ db = Null

\* dbManager.executeCorportalQuery settles: the rows, or the error executeQuery
\* rethrows (part_002 64-82)
ExecuteCorportalQuery ==
  /\ fetch.corportal = "pending"
  /\ \/ fetch' = [fetch EXCEPT !.corportal = "resolved",
                               !.order = Append(@, "corportal")]
     \/ fetch' = [fetch EXCEPT !.corportal = "rejected",
                               !.first = IF @ = "none" THEN "corportal" ELSE @,
                               !.order = Append(@, "corportal")]
  /\ UNCHANGED <<req, res, args, db, firstReport, corportalPayments, ccbPayments, amountTolerance,
                 daysTolerance, includePartialMatches, pc, idx, matches, partialMatches,
                 exceptions, summary, matchedCorportalIds, matchedCCBIds,
                 unmatchedCorportal, unmatchedCCB, ret>>

\* dbManager.executeCCBQuery settles (part_002 64-86)
ExecuteCCBQuery ==
  /\ fetch.ccb = "pending"
  /\ \/ fetch' = [fetch EXCEPT !.ccb = "resolved", !.order = Append(@, "ccb")]
     \/ fetch' = [fetch EXCEPT !.ccb = "rejected",
                               !.first = IF @ = "none" THEN "ccb" ELSE @,
                               !.order = Append(@, "ccb")]
  /\ UNCHANGED <<req, res, args, db, firstReport, corportalPayments, ccbPayments, amountTolerance,
                 daysTolerance, includePartialMatches, pc, idx, matches, partialMatches,
                 exceptions, summary, matchedCorportalIds, matchedCCBIds,
                 unmatchedCorportal, unmatchedCCB, ret>>

\* the array a combinator would fulfil with if it listed the values as the
\* promises settle
PromiseAllValues_CompletionOrder(f, corportalRows, ccbRows) ==
  IF f.order[1] = "corportal" THEN <<corportalRows, ccbRows>>
  ELSE <<ccbRows, corportalRows>>

\* the array Promise.all fulfils with (198-201): the values in the order of
\* the promises passed in, whichever settled first
PromiseAllValues(f, corportalRows, ccbRows) == <<corportalRows, ccbRows>>

\* the await returns both result sets, destructured by position; results is
\* built (198-232)
AwaitFulfilled ==
  /\ pc = "fetch"
  /\ PromiseAll(fetch) = "fulfilled"
  /\ corportalPayments' = PromiseAllValues(fetch, corportalPayments, ccbPayments)[1]
  /\ ccbPayments' = PromiseAllValues(fetch, corportalPayments, ccbPayments)[2]
  /\ \E now \in NowDays : summary' = InitSummary(corportalPayments', ccbPayments', now)
  /\ pc' = "exact"
  /\ UNCHANGED <<req, res, args, db, fetch, firstReport, amountTolerance,
                 daysTolerance, includePartialMatches, idx, matches, partialMatches,
                 exceptions, matchedCorportalIds, matchedCCBIds, unmatchedCorportal,
                 unmatchedCCB, ret>>

\* the await throws; the catch logs the error and throws it again (330-333)
AwaitRejected ==
  /\ pc = "fetch"
  /\ PromiseAll(fetch) = "rejected"
  /\ ret' = [error |-> fetch.first]
  /\ pc' = "failed"
  /\ UNCHANGED <<req, res, args, db, fetch, firstReport, corportalPayments, ccbPayments, amountTolerance,
                 daysTolerance, includePartialMatches, idx, matches, partialMatches,
                 exceptions, summary, matchedCorportalIds, matchedCCBIds,
                 unmatchedCorportal, unmatchedCCB>>

NextFetch ==
  ExecuteCorportalQuery \/ ExecuteCCBQuery \/ AwaitFulfilled \/ AwaitRejected \/ Next

SpecFetch == InitFetch /\ [][NextFetch]_vars

(* ---------------------------- the HTTP routes -------------------------- *)
\* a date parameter of a request: absent, not a date, or a day
Missing == [kind |-> "missing"]

InvalidDate == [kind |-> "invalid"]

Day(d) == [kind |-> "date", day |-> d]

\* to.diff(from, 'days') > 90 (part_006 38)
MaxRangeDays == 90

RequestFromDates == {Missing, InvalidDate} \cup {Day(d) : d \in Days}

RequestToDates ==
  {Missing, InvalidDate}
    \cup {Day(d) : d \in Days \cup {MaxRangeDays - 1, MaxRangeDays, MaxRangeDays + 1}}

\* the options of a request; a field that is absent is undefined
RequestOptions ==
  {[includePartialMatches |-> b] : b \in BOOLEAN}
    \cup {[amountTolerance |-> a] : a \in {-1, 0, 1}}
    \cup {[daysTolerance |-> d] : d \in {-1, 0, 1}}

Routes == {"GET /detailed-reconciliation", "POST /run", "GET /export"}

\* the rows of the two tables: at most one payment of C1 by BBPS in each
CorportalTables ==
  {r \in CorportalResultSets :
     /\ Len(r) <= 1
     /\ \A j \in DOMAIN r : r[j].CONSUMER_ID = "C1" /\ r[j].PAYMENT_MODE = "BBPS"}

CCBTables ==
  {r \in CCBResultSets :
     /\ Len(r) <= 1
     /\ \A j \in DOMAIN r : r[j].CONSUMER_ID = "C1" /\ r[j].PAYMENT_MODE = "BBPS"}

\* no query has been started
NotStarted == [corportal |-> "idle", ccb |-> "idle", first |-> "none"]

\* a request has arrived; nothing of the engine exists yet
InitHttp ==
  /\ req \in [route : Routes, fromDate : RequestFromDates, toDate : RequestToDates,
               options : RequestOptions]
  /\ res = Null
  /\ args = Null
  /\ db = Null
  /\ corportalPayments \in CorportalTables
  /\ ccbPayments \in CCBTables
  /\ amountTolerance = Null
  /\ daysTolerance = Null
  /\ includePartialMatches = Null
  /\ pc = "request"
  /\ fetch = NotStarted
  /\ idx = 1
  /\ matches = <<>>
  /\ partialMatches = <<>>
  /\ exceptions = <<>>
  /\ summary = Null
  /\ matchedCorportalIds = {}
  /\ matchedCCBIds = {}
  /\ unmatchedCorportal = <<>>
  /\ unmatchedCCB = <<>>
  /\ ret = Null
  /\ firstReport = Null

\* options.f, or the default when the field is undefined (158-162)
OptionOr(options, f, default) == IF f \in DOMAIN options THEN options[f] ELSE default

\* parseFloat(q) || d, parseInt(q) || d: absent, unparsable and 0 all give d
ParsedOr(options, f, default) ==
  IF f \in DOMAIN options /\ options[f] # 0 THEN options[f] ELSE default

\* WHERE date BETWEEN :fromDate AND :toDate
Between(rows, col, from, to) ==
  IF from.kind = "date" /\ to.kind = "date"
  THEN SelectSeq(rows, LAMBDA p : from.day <= p[col] /\ p[col] <= to.day)
  ELSE <<>>

\* performDetailedReconciliation(from, to, options) up to its await (157-201):
\* the options are destructured and the two queries are started
CallEngine(from, to, options) ==
  /\ args' = [fromDate |-> from, toDate |-> to]
  /\ amountTolerance' = OptionOr(options, "amountTolerance", DefaultAmountTolerance)
  /\ daysTolerance' = OptionOr(options, "daysTolerance", DefaultDaysTolerance)
  /\ includePartialMatches' = OptionOr(options, "includePartialMatches", TRUE)
  /\ corportalPayments' = Between(corportalPayments, "PAYMENT_DATE", from, to)
  /\ ccbPayments' = Between(ccbPayments, "POSTING_DATE", from, to)
  /\ fetch' = BothPending
  /\ pc' = "fetch"

\* the 400 response of a rejected request
BadRequest == [status |-> 400]

\* the checks of validateDateRange (part_006 13-43)
DateRangeAccepted(from, to) ==
  /\ from.kind # "missing" /\ to.kind # "missing"
  /\ from.kind # "invalid" /\ to.kind # "invalid"
  /\ ~(from.day > to.day)
  /\ ~(to.day - from.day > MaxRangeDays)

\* GET /detailed-reconciliation: validateDateRange, then the handler up to its
\* await (part_006 10-47, 104-115)
GetDetailedReconciliation ==
  /\ pc = "request"
  /\ req.route = "GET /detailed-reconciliation"
  /\ IF DateRangeAccepted(req.fromDate, req.toDate)
     THEN /\ CallEngine(req.fromDate, req.toDate,
                         [amountTolerance |->
                            ParsedOr(req.options, "amountTolerance", DefaultAmountTolerance),
                          daysTolerance |->
                            ParsedOr(req.options, "daysTolerance", DefaultDaysTolerance),
                          includePartialMatches |->
                            OptionOr(req.options, "includePartialMatches", TRUE)])
          /\ UNCHANGED res
     ELSE /\ res' = BadRequest
          /\ pc' = "responded"
          /\ UNCHANGED <<args, amountTolerance, daysTolerance, includePartialMatches,
                         corportalPayments, ccbPayments, fetch>>
  /\ UNCHANGED <<req, db, firstReport, idx, matches, partialMatches, exceptions, summary,
                 matchedCorportalIds, matchedCCBIds, unmatchedCorportal, unmatchedCCB, ret>>

\* POST /run up to its await (part_007 12-32): only the presence of the two
\* dates is checked, options goes to the engine as it came
PostRun ==
  /\ pc = "request"
  /\ req.route = "POST /run"
  /\ IF req.fromDate.kind # "missing" /\ req.toDate.kind # "missing"
     THEN /\ CallEngine(req.fromDate, req.toDate, req.options)
          /\ UNCHANGED res
     ELSE /\ res' = BadRequest
          /\ pc' = "responded"
          /\ UNCHANGED <<args, amountTolerance, daysTolerance, includePartialMatches,
                         corportalPayments, ccbPayments, fetch>>
  /\ UNCHANGED <<req, db, firstReport, idx, matches, partialMatches, exceptions, summary,
                 matchedCorportalIds, matchedCCBIds, unmatchedCorportal, unmatchedCCB, ret>>

\* GET /export with type=detailed up to its await (part_007 309-369): the
\* engine is called without options
GetExport ==
  /\ pc = "request"
  /\ req.route = "GET /export"
  /\ IF req.fromDate.kind # "missing" /\ req.toDate.kind # "missing"
     THEN /\ CallEngine(req.fromDate, req.toDate, [includePartialMatches |-> TRUE])
          /\ UNCHANGED res
     ELSE /\ res' = BadRequest
          /\ pc' = "responded"
          /\ UNCHANGED <<args, amountTolerance, daysTolerance, includePartialMatches,
                         corportalPayments, ccbPayments, fetch>>
  /\ UNCHANGED <<req, db, firstReport, idx, matches, partialMatches, exceptions, summary,
                 matchedCorportalIds, matchedCCBIds, unmatchedCorportal, unmatchedCCB, ret>>

\* the engine has returned: the handler sends the report
SendReport ==
  /\ pc = "done"
  /\ res' = [status |-> 200, result |-> Report]
  /\ pc' = "responded"
  /\ UNCHANGED <<req, args, db, fetch, firstReport, corportalPayments, ccbPayments,
                 amountTolerance, daysTolerance, includePartialMatches, idx, matches,
                 partialMatches, exceptions, summary, matchedCorportalIds, matchedCCBIds,
                 unmatchedCorportal, unmatchedCCB, ret>>

\* the engine has thrown: the catch of the handler answers 500
SendError ==
  /\ pc = "failed"
  /\ res' = [status |-> 500]
  /\ pc' = "responded"
  /\ UNCHANGED <<req, args, db, fetch, firstReport, corportalPayments, ccbPayments,
                 amountTolerance, daysTolerance, includePartialMatches, idx, matches,
                 partialMatches, exceptions, summary, matchedCorportalIds, matchedCCBIds,
                 unmatchedCorportal, unmatchedCCB, ret>>

NextHttp ==
  GetDetailedReconciliation \/ PostRun \/ GetExport \/ SendReport \/ SendError \/ NextFetch

SpecHttp == InitHttp /\ [][NextHttp]_vars

(* ---------------------------- getReconciliationStats ------------------ *)
\* (n / d) * 100 in floating point: 0 / 0 is NaN, n / 0 is Infinity
Percent(n, d) ==
  IF d = 0
  THEN IF n = 0 THEN [nan |-> TRUE] ELSE [infinity |-> TRUE]
  ELSE [num |-> 100 * n, den |-> d]

\* (totalDays / len).toFixed(1), as a number of tenths
toFixed1(totalDays, len) == (20 * totalDays + len) \div (2 * len)

RECURSIVE SumAbs(_)
SumAbs(ms) ==
  IF ms = <<>> THEN 0 ELSE Abs(Head(ms).dateDifference) + SumAbs(Tail(ms))

\* the total divided by one more than the number of matches
calculateAverageSettlementDays_OneMore(ms) ==
  IF Len(ms) = 0
  THEN [type |-> "number", tenths |-> 0]
  ELSE [type |-> "string", tenths |-> toFixed1(SumAbs(ms), Len(ms) + 1)]

\* 553-558: the number 0 for an empty list, otherwise the string toFixed(1) gives
calculateAverageSettlementDays(ms) ==
  IF Len(ms) = 0
  THEN [type |-> "number", tenths |-> 0]
  ELSE [type |-> "string", tenths |-> toFixed1(SumAbs(ms), Len(ms))]

\* a call of getReconciliationStats: performDetailedReconciliation runs with
\* the default options
InitStats ==
  /\ corportalPayments \in CorportalResultSets
  /\ ccbPayments \in CCBResultSets
  /\ Len(corportalPayments) + Len(ccbPayments) <= MaxRecords
  /\ amountTolerance = DefaultAmountTolerance
  /\ daysTolerance = DefaultDaysTolerance
  /\ includePartialMatches = TRUE
  /\ pc = "exact"
  /\ Blank

\* the stats object built from the finished reconciliation (532-542)
StatsStep ==
  /\ pc = "done"
  /\ ret' = [summary |-> summary,
             reconciliationEfficiency |->
               Percent(summary.matchedPayments, summary.totalCorportalPayments),
             amountReconciliationRate |->
               Percent(summary.matchedAmount, summary.totalCorportalAmount),
             criticalExceptions |->
               Len(SelectSeq(exceptions, LAMBDA e : e.requiresAction)),
             avgSettlementDays |-> calculateAverageSettlementDays(matches)]
  /\ pc' = "stats"
  /\ UNCHANGED <<req, res, args, db, fetch, firstReport, corportalPayments, ccbPayments, amountTolerance,
                 daysTolerance, includePartialMatches, idx, matches, partialMatches,
                 exceptions, summary, matchedCorportalIds, matchedCCBIds,
                 unmatchedCorportal, unmatchedCCB>>

NextStats == Next \/ StatsStep

SpecStats == InitStats /\ [][NextStats]_vars

(* ---------------------------- PaymentReconciliation ------------------- *)
\* Object.values(PAYMENT_MODES), in declaration order
PAYMENT_MODES ==
  <<"BANK_COUNTER", "BILLSAHULIYAT_PLUS", "SMART_BS", "JK_BANK_MPAY", "BBPS", "POS_MACHINES">>

\* ORDER BY PAYMENT_DATE DESC
CorportalOrderedDesc(rows) ==
  \A j \in 1 .. Len(rows) - 1 : rows[j].PAYMENT_DATE >= rows[j + 1].PAYMENT_DATE

\* ORDER BY POSTING_DATE DESC
CCBOrderedDesc(rows) ==
  \A j \in 1 .. Len(rows) - 1 : rows[j].POSTING_DATE >= rows[j + 1].POSTING_DATE

\* result sets of getCorportalPayments and getCCBPayments
CorportalPaymentSets ==
  {r \in UNION {[1 .. n -> CorportalRows] : n \in 0 .. MaxCorp} : CorportalOrderedDesc(r)}

CCBPaymentSets ==
  {r \in UNION {[1 .. n -> CCBRows] : n \in 0 .. MaxCCB} : CCBOrderedDesc(r)}

\* the rows of one payment mode
ModePayments(payments, mode) == SelectSeq(payments, LAMBDA p : p.PAYMENT_MODE = mode)

\* the breakdown built over the modes that occur in the rows
byPaymentMode_PresentModes(corp, ccb) ==
  [mode \in {corp[j].PAYMENT_MODE : j \in DOMAIN corp}
             \cup {ccb[j].PAYMENT_MODE : j \in DOMAIN ccb} |->
     [corportalAmount |-> SumAmount(ModePayments(corp, mode)),
      ccbAmount |-> SumAmount(ModePayments(ccb, mode)),
      corportalCount |-> Len(ModePayments(corp, mode)),
      ccbCount |-> Len(ModePayments(ccb, mode)),
      variance |-> SumAmount(ModePayments(corp, mode)) - SumAmount(ModePayments(ccb, mode))]]

\* summary by payment mode (184-199)
byPaymentMode(corp, ccb) ==
  [mode \in {PAYMENT_MODES[j] : j \in DOMAIN PAYMENT_MODES} |->
     [corportalAmount |-> SumAmount(ModePayments(corp, mode)),
      ccbAmount |-> SumAmount(ModePayments(ccb, mode)),
      corportalCount |-> Len(ModePayments(corp, mode)),
      ccbCount |-> Len(ModePayments(ccb, mode)),
      variance |-> SumAmount(ModePayments(corp, mode)) - SumAmount(ModePayments(ccb, mode))]]

\* the counters of allKeys.forEach (166-182), summed over a set of keys
RECURSIVE CountKeys(_, _, _, _)
CountKeys(keys, corp, ccb, counter) ==
  IF keys = {} THEN 0
  ELSE LET key == CHOOSE k \in keys : TRUE
           corportalRecords == Len(SelectSeq(corp, LAMBDA p : exactKey(p) = key))
           ccbRecords == Len(SelectSeq(ccb, LAMBDA p : exactKey(p) = key))
           added ==
             IF corportalRecords > 0 /\ ccbRecords > 0
             THEN CASE counter = "matchedCount" ->
                         IF corportalRecords < ccbRecords THEN corportalRecords
                         ELSE ccbRecords
                    [] counter = "amountMismatchCount" -> Abs(corportalRecords - ccbRecords)
                    [] OTHER -> 0
             ELSE IF corportalRecords > 0
             THEN IF counter = "unmatchedCorportalCount" THEN corportalRecords ELSE 0
             ELSE IF counter = "unmatchedCCBCount" THEN ccbRecords ELSE 0
       IN added + CountKeys(keys \ {key}, corp, ccb, counter)

\* 128-202: the summary of the dashboard
getReconciliationSummary(corp, ccb) ==
  LET allKeys == {exactKey(corp[j]) : j \in DOMAIN corp}
                   \cup {exactKey(ccb[j]) : j \in DOMAIN ccb}
  IN [corportalTotal |-> SumAmount(corp),
      ccbTotal |-> SumAmount(ccb),
      corportalCount |-> Len(corp),
      ccbCount |-> Len(ccb),
      matchedCount |-> CountKeys(allKeys, corp, ccb, "matchedCount"),
      unmatchedCorportalCount |-> CountKeys(allKeys, corp, ccb, "unmatchedCorportalCount"),
      unmatchedCCBCount |-> CountKeys(allKeys, corp, ccb, "unmatchedCCBCount"),
      amountMismatchCount |-> CountKeys(allKeys, corp, ccb, "amountMismatchCount"),
      byPaymentMode |-> byPaymentMode(corp, ccb)]

\* both result sets of getReconciliationSummary are in (125-126)
InitSummaryCall ==
  /\ corportalPayments \in CorportalPaymentSets
  /\ ccbPayments \in CCBPaymentSets
  /\ Len(corportalPayments) + Len(ccbPayments) <= MaxRecords
  /\ amountTolerance = DefaultAmountTolerance
  /\ daysTolerance = DefaultDaysTolerance
  /\ includePartialMatches = TRUE
  /\ pc = "summary"
  /\ Blank

SummaryStep ==
  /\ pc = "summary"
  /\ ret' = getReconciliationSummary(corportalPayments, ccbPayments)
  /\ pc' = "summarised"
  /\ UNCHANGED <<req, res, args, db, fetch, firstReport, corportalPayments, ccbPayments, amountTolerance,
                 daysTolerance, includePartialMatches, idx, matches, partialMatches,
                 exceptions, summary, matchedCorportalIds, matchedCCBIds,
                 unmatchedCorportal, unmatchedCCB>>

SpecSummary == InitSummaryCall /\ [][SummaryStep]_vars

(* ---------------------------- the helpers on their own ----------------- *)
\* one intake row and one posting row, to be scored
InitScore ==
  /\ \E c \in Consumers, m \in Modes, a \in HelperAmounts, d \in 0 .. HelperMaxDay :
       corportalPayments = <<[CONSUMER_ID |-> c, PAYMENT_MODE |-> m, AMOUNT |-> a,
                              PAYMENT_DATE |-> d, CORPORTAL_ROWID |-> 1]>>
  /\ \E c \in Consumers, m \in Modes, a \in HelperAmounts, d \in 0 .. HelperMaxDay :
       ccbPayments = <<[CONSUMER_ID |-> c, PAYMENT_MODE |-> m, AMOUNT |-> a,
                        POSTING_DATE |-> d, CCB_ROWID |-> 1]>>
  /\ amountTolerance \in HelperAmountTolerances
  /\ daysTolerance \in 0 .. HelperMaxTolerance
  /\ includePartialMatches = TRUE
  /\ pc = "score"
  /\ Blank

\* the call of calculateMatchScore that findFuzzyMatches makes for one candidate (405-414)
ScoreStep ==
  /\ pc = "score"
  /\ ret' = calculateMatchScore(corportalPayments[1], ccbPayments[1],
                                corportalPayments[1].AMOUNT, ccbPayments[1].AMOUNT,
                                corportalPayments[1].PAYMENT_DATE,
                                ccbPayments[1].POSTING_DATE,
                                amountTolerance, daysTolerance)
  /\ pc' = "scored"
  /\ UNCHANGED <<req, res, args, db, fetch, firstReport, corportalPayments, ccbPayments, amountTolerance, daysTolerance,
                 includePartialMatches, idx, matches, partialMatches, exceptions,
                 summary, matchedCorportalIds, matchedCCBIds, unmatchedCorportal,
                 unmatchedCCB>>

SpecScore == InitScore /\ [][ScoreStep]_vars

\* posting rows of consumer C1 and mode BBPS, in POSTING_DATE order
CandidateResultSets ==
  {[j \in DOMAIN rows |->
      [CONSUMER_ID |-> "C1", PAYMENT_MODE |-> "BBPS", AMOUNT |-> rows[j].AMOUNT,
       POSTING_DATE |-> rows[j].POSTING_DATE, CCB_ROWID |-> j]] :
     rows \in {r \in UNION {[1 .. n -> [AMOUNT : Amounts, POSTING_DATE : 0 .. HelperMaxDay]] :
                              n \in 0 .. MaxCandidates} :
                 \A j \in 1 .. Len(r) - 1 : r[j].POSTING_DATE <= r[j + 1].POSTING_DATE}}

\* a reconciliation of one intake row against up to MaxCandidates posting rows
InitBest ==
  /\ \E d \in 0 .. HelperMaxDay :
       corportalPayments = <<[CONSUMER_ID |-> "C1", PAYMENT_MODE |-> "BBPS", AMOUNT |-> 100,
                              PAYMENT_DATE |-> d, CORPORTAL_ROWID |-> 1]>>
  /\ ccbPayments \in CandidateResultSets
  /\ amountTolerance = 1
  /\ daysTolerance \in 0 .. HelperMaxTolerance
  /\ includePartialMatches \in BOOLEAN
  /\ pc = "exact"
  /\ Blank

SpecBest == InitBest /\ [][Next]_vars

\* a reconciliation of one intake row against one posting row over the wider
\* range of amounts
InitPair ==
  /\ \E c \in Consumers, m \in Modes, a \in HelperAmounts, d \in Days :
       corportalPayments = <<[CONSUMER_ID |-> c, PAYMENT_MODE |-> m, AMOUNT |-> a,
                              PAYMENT_DATE |-> d, CORPORTAL_ROWID |-> 1]>>
  /\ \E c \in Consumers, m \in Modes, a \in HelperAmounts, d \in Days :
       ccbPayments = <<[CONSUMER_ID |-> c, PAYMENT_MODE |-> m, AMOUNT |-> a,
                        POSTING_DATE |-> d, CCB_ROWID |-> 1]>>
  /\ amountTolerance \in HelperAmountTolerances
  /\ daysTolerance \in DaysTolerances
  /\ includePartialMatches \in BOOLEAN
  /\ pc = "exact"
  /\ Blank

SpecPair == InitPair /\ [][Next]_vars

\* What the two tables can hold beyond well-formed rows: an amount of zero or
\* below, an empty consumer id.  The queries select on date and status only
\* (166-196), so such a row is returned like any other.
RawConsumers == {"", "C1"}

RawAmounts == {-100, 0, 100}

\* a reconciliation of one raw intake row against one raw posting row
InitRows ==
  /\ \E c \in RawConsumers, m \in Modes, a \in RawAmounts, d \in Days :
       corportalPayments = <<[CONSUMER_ID |-> c, PAYMENT_MODE |-> m, AMOUNT |-> a,
                              PAYMENT_DATE |-> d, CORPORTAL_ROWID |-> 1]>>
  /\ \E c \in RawConsumers, m \in Modes, a \in RawAmounts, d \in Days :
       ccbPayments = <<[CONSUMER_ID |-> c, PAYMENT_MODE |-> m, AMOUNT |-> a,
                        POSTING_DATE |-> d, CCB_ROWID |-> 1]>>
  /\ amountTolerance \in AmountTolerances
  /\ daysTolerance \in DaysTolerances
  /\ includePartialMatches \in BOOLEAN
  /\ pc = "exact"
  /\ Blank

SpecRows == InitRows /\ [][Next]_vars

(* ---------------------------- DatabaseManager -------------------------- *)
\* initializePools calls made by GET /api/test-db, executeQuery calls made
\* while the process runs
MaxInitializations == 2
MaxCalls == 3

Databases == {"corportal", "ccb"}

\* new DatabaseManager() (part_002 9-12) in a process that has not started its
\* server.  A pool field is "null", or refers to a pool that is "open" or
\* "closed"; dropped counts the open pools of a database no field refers to.
NewDatabaseManager ==
  [phase |-> "boot", corportalPool |-> "null", ccbPool |-> "null",
   dropped |-> [d \in Databases |-> 0], initializations |-> 0, calls |-> <<>>]

\* this.corportalPool or this.ccbPool (part_002 80-86)
PoolOf(manager, d) == IF d = "corportal" THEN manager.corportalPool ELSE manager.ccbPool

\* this.<d>Pool = await oracledb.createPool(..) has succeeded: the field refers
\* to the new pool, whatever it referred to before
AssignNewPool(manager, d) ==
  LET dropped == IF PoolOf(manager, d) = "open" THEN manager.dropped[d] + 1
                 ELSE manager.dropped[d]
  IN IF d = "corportal"
     THEN [manager EXCEPT !.corportalPool = "open", !.dropped[d] = dropped]
     ELSE [manager EXCEPT !.ccbPool = "open", !.dropped[d] = dropped]

\* initializePools (part_002 14-48): the ways it can end.  The first createPool
\* rejects; the second does; both succeed.  The catch logs and throws again.
initializePools(manager) ==
  {[manager |-> manager, thrown |-> TRUE],
   [manager |-> AssignNewPool(manager, "corportal"), thrown |-> TRUE],
   [manager |-> AssignNewPool(AssignNewPool(manager, "corportal"), "ccb"),
    thrown |-> FALSE]}

\* closePools (part_002 88-101): each non-null field's pool is closed, the
\* fields are left as they are; close() of a closed pool rejects, and the
\* catch logs that and ends the function
closePools(manager) ==
  IF manager.corportalPool = "closed" THEN manager
  ELSE LET afterFirst == IF manager.corportalPool = "open"
                         THEN [manager EXCEPT !.corportalPool = "closed"]
                         ELSE manager
       IN IF afterFirst.ccbPool = "open"
          THEN [afterFirst EXCEPT !.ccbPool = "closed"]
          ELSE afterFirst

\* executeQuery(pool, ..) has been called (part_002 64-65): let connection
NewCall(manager, d, caller) ==
  [database |-> d, caller |-> caller, pool |-> PoolOf(manager, d),
   pc |-> "getConnection", connection |-> FALSE, error |-> FALSE, closes |-> 0]

\* a finally block that closes the connection of a query that succeeded only
FinallyClose_OnSuccess(call) ==
  IF call.connection /\ ~call.error THEN call.closes + 1 ELSE call.closes

\* finally { if (connection) await connection.close() } (part_002 73-77): the
\* number of close() calls made on the connection of this call
FinallyClose(call) ==
  IF call.connection THEN call.closes + 1 ELSE call.closes

\* the process has loaded its modules: the singleton exists, nothing else
InitDb ==
  /\ db = NewDatabaseManager
  /\ req = Null
  /\ res = Null
  /\ args = Null
  /\ corportalPayments = <<>>
  /\ ccbPayments = <<>>
  /\ amountTolerance = DefaultAmountTolerance
  /\ daysTolerance = DefaultDaysTolerance
  /\ includePartialMatches = TRUE
  /\ pc = "idle"
  /\ idx = 1
  /\ matches = <<>>
  /\ partialMatches = <<>>
  /\ exceptions = <<>>
  /\ summary = Null
  /\ matchedCorportalIds = {}
  /\ matchedCCBIds = {}
  /\ unmatchedCorportal = <<>>
  /\ unmatchedCCB = <<>>
  /\ ret = Null
  /\ fetch = NotStarted
  /\ firstReport = Null

\* startServer (server.js 110-119): the pools are initialised; a failure is
\* logged and the server starts all the same
StartServer ==
  /\ db.phase = "boot"
  /\ \E o \in initializePools(db) : db' = [o.manager EXCEPT !.phase = "serving"]
  /\ UNCHANGED <<req, res, args, fetch, firstReport, corportalPayments, ccbPayments,
                 amountTolerance, daysTolerance, includePartialMatches, pc, idx, matches,
                 partialMatches, exceptions, summary, matchedCorportalIds,
                 matchedCCBIds, unmatchedCorportal, unmatchedCCB, ret>>

\* GET /api/test-db (server.js 59-75), up to the first await of
\* testConnections: initializePools once more, then executeCorportalQuery is
\* called (part_002 103-105); a failure of initializePools is answered 500
GetTestDb ==
  /\ db.phase = "serving"
  /\ req = Null
  /\ db.initializations < MaxInitializations
  /\ Len(db.calls) + 2 <= MaxCalls
  /\ \E o \in initializePools(db) :
       LET manager == [o.manager EXCEPT !.initializations = @ + 1]
       IN IF o.thrown
          THEN /\ db' = manager
               /\ res' = [status |-> 500]
               /\ req' = Null
          ELSE /\ db' = [manager EXCEPT
                           !.calls = Append(@, NewCall(manager, "corportal", "testConnections"))]
               /\ res' = Null
               /\ req' = [route |-> "GET /api/test-db", awaits |-> Len(db.calls) + 1]
  /\ UNCHANGED <<args, fetch, firstReport, corportalPayments, ccbPayments,
                 amountTolerance, daysTolerance, includePartialMatches, pc, idx, matches,
                 partialMatches, exceptions, summary, matchedCorportalIds,
                 matchedCCBIds, unmatchedCorportal, unmatchedCCB, ret>>

\* testConnections after a query has settled (part_002 104-116, server.js
\* 62-74): the CCB query follows the CORPORTAL one, the answer follows the CCB
\* one, and a query that threw is answered 500
TestConnectionsNext ==
  /\ db.phase = "serving"
  /\ req # Null
  /\ LET call == db.calls[req.awaits]
     IN /\ call.pc \in {"returned", "thrown"}
        /\ IF call.pc = "thrown"
           THEN /\ res' = [status |-> 500]
                /\ req' = Null
                /\ db' = db
           ELSE IF call.database = "corportal"
           THEN /\ db' = [db EXCEPT
                            !.calls = Append(@, NewCall(db, "ccb", "testConnections"))]
                /\ req' = [req EXCEPT !.awaits = Len(db.calls) + 1]
                /\ res' = res
           ELSE /\ res' = [status |-> 200]
                /\ req' = Null
                /\ db' = db
  /\ UNCHANGED <<args, fetch, firstReport, corportalPayments, ccbPayments,
                 amountTolerance, daysTolerance, includePartialMatches, pc, idx, matches,
                 partialMatches, exceptions, summary, matchedCorportalIds,
                 matchedCCBIds, unmatchedCorportal, unmatchedCCB, ret>>

\* the two calls inside Promise.all (server.js 198-201): executeCorportalQuery
\* and executeCCBQuery are both called before either has settled
StartQueries ==
  /\ db.phase = "serving"
  /\ Len(db.calls) + 2 <= MaxCalls
  /\ db' = [db EXCEPT !.calls = @ \o <<NewCall(db, "corportal", "performDetailedReconciliation"),
                                       NewCall(db, "ccb", "performDetailedReconciliation")>>]
  /\ UNCHANGED <<req, res, args, fetch, firstReport, corportalPayments, ccbPayments,
                 amountTolerance, daysTolerance, includePartialMatches, pc, idx, matches,
                 partialMatches, exceptions, summary, matchedCorportalIds,
                 matchedCCBIds, unmatchedCorportal, unmatchedCCB, ret>>

\* connection = await pool.getConnection() (part_002 67): a null pool throws a
\* TypeError, a closed pool rejects, an open pool hands out a connection or
\* rejects; a throw goes to the catch and on to the finally block
GetConnection ==
  /\ db.phase = "serving"
  /\ \E k \in DOMAIN db.calls :
       /\ db.calls[k].pc = "getConnection"
       /\ \/ /\ db.calls[k].pool = "open"
             /\ db' = [db EXCEPT !.calls[k].connection = TRUE, !.calls[k].pc = "execute"]
          \/ db' = [db EXCEPT !.calls[k].error = TRUE, !.calls[k].pc = "finally"]
  /\ UNCHANGED <<req, res, args, fetch, firstReport, corportalPayments, ccbPayments,
                 amountTolerance, daysTolerance, includePartialMatches, pc, idx, matches,
                 partialMatches, exceptions, summary, matchedCorportalIds,
                 matchedCCBIds, unmatchedCorportal, unmatchedCCB, ret>>

\* const result = await connection.execute(query, params) (part_002 68-72):
\* the rows, or an error the catch logs and throws again
ConnectionExecute ==
  /\ db.phase = "serving"
  /\ \E k \in DOMAIN db.calls :
       /\ db.calls[k].pc = "execute"
       /\ \/ db' = [db EXCEPT !.calls[k].pc = "finally"]
          \/ db' = [db EXCEPT !.calls[k].error = TRUE, !.calls[k].pc = "finally"]
  /\ UNCHANGED <<req, res, args, fetch, firstReport, corportalPayments, ccbPayments,
                 amountTolerance, daysTolerance, includePartialMatches, pc, idx, matches,
                 partialMatches, exceptions, summary, matchedCorportalIds,
                 matchedCCBIds, unmatchedCorportal, unmatchedCCB, ret>>

\* the finally block (part_002 73-77), after which the call settles: it
\* returns result.rows, or throws the error of the try block or of close()
ExecuteQueryFinally ==
  /\ db.phase = "serving"
  /\ \E k \in DOMAIN db.calls :
       /\ db.calls[k].pc = "finally"
       /\ \E closeRejects \in {c \in BOOLEAN : c => db.calls[k].connection} :
            db' = [db EXCEPT !.calls[k].closes = FinallyClose(db.calls[k]),
                             !.calls[k].pc = IF db.calls[k].error \/ closeRejects
                                             THEN "thrown" ELSE "returned"]
  /\ UNCHANGED <<req, res, args, fetch, firstReport, corportalPayments, ccbPayments,
                 amountTolerance, daysTolerance, includePartialMatches, pc, idx, matches,
                 partialMatches, exceptions, summary, matchedCorportalIds,
                 matchedCCBIds, unmatchedCorportal, unmatchedCCB, ret>>

\* SIGINT or SIGTERM (part_002 123-133): closePools, then process.exit(0)
Shutdown ==
  /\ db.phase \in {"boot", "serving"}
  /\ db' = [closePools(db) EXCEPT !.phase = "exited"]
  /\ UNCHANGED <<req, res, args, fetch, firstReport, corportalPayments, ccbPayments,
                 amountTolerance, daysTolerance, includePartialMatches, pc, idx, matches,
                 partialMatches, exceptions, summary, matchedCorportalIds,
                 matchedCCBIds, unmatchedCorportal, unmatchedCCB, ret>>

NextDb ==
  \/ StartServer
  \/ GetTestDb
  \/ TestConnectionsNext
  \/ StartQueries
  \/ GetConnection
  \/ ConnectionExecute
  \/ ExecuteQueryFinally
  \/ Shutdown

SpecDb == InitDb /\ [][NextDb]_vars

(* ---------------------------- properties ------------------------------- *)
SeqToSet(q) == {q[j] : j \in DOMAIN q}

\* positions of the matches of either kind that pair intake row id
MatchesOfCorportal(ms, id) == {j \in DOMAIN ms : ms[j].corportalPayment.CORPORTAL_ROWID = id}

\* positions of the matches that pair posting row id
MatchesOfCCB(ms, id) == {j \in DOMAIN ms : ms[j].ccbPayment.CCB_ROWID = id}

CorportalExceptionsOf(id) ==
  {j \in DOMAIN exceptions : /\ exceptions[j].type = "UNMATCHED_CORPORTAL"
                             /\ exceptions[j].payment.CORPORTAL_ROWID = id}

CCBExceptionsOf(id) ==
  {j \in DOMAIN exceptions : /\ exceptions[j].type = "UNMATCHED_CCB"
                             /\ exceptions[j].payment.CCB_ROWID = id}

DateGap(corp, ccb) == Abs(ccb.POSTING_DATE - corp.PAYMENT_DATE)

\* C1: in the exact phase no posting row is paired with more than one intake row
C1_ExactPostingClaimedOnce ==
  \A p \in SeqToSet(ccbPayments) : Cardinality(MatchesOfCCB(matches, p.CCB_ROWID)) <= 1

\* C2: over the fuzzy phase no posting row appears in more than one FUZZY match
C2_FuzzyPostingClaimedOnce ==
  \A p \in SeqToSet(ccbPayments) :
    Cardinality(MatchesOfCCB(partialMatches, p.CCB_ROWID)) <= 1

\* C3: every intake row is in at most one match (EXACT or FUZZY), at most once
\* among the exceptions, and never both in a match and in an exception
C3_IntakeClaimedOnce ==
  \A p \in SeqToSet(corportalPayments) :
    LET inMatches == Cardinality(MatchesOfCorportal(matches, p.CORPORTAL_ROWID))
                     + Cardinality(MatchesOfCorportal(partialMatches, p.CORPORTAL_ROWID))
        inExceptions == Cardinality(CorportalExceptionsOf(p.CORPORTAL_ROWID))
    IN inMatches + inExceptions <= 1

C3_Witness ==
  /\ pc = "done"
  /\ Len(corportalPayments) = 2
  /\ Len(matches) + Len(partialMatches) = 1
  /\ \E j \in DOMAIN exceptions : exceptions[j].type = "UNMATCHED_CORPORTAL"

\* C4: in the finished report EXACT matches + FUZZY matches + unmatched intake
\* exceptions = intake rows, in the summary and in the lists it summarises
C4_IntakeConservation ==
  pc = "done" =>
    /\ summary.matchedPayments + summary.partialMatches + summary.unmatchedCorportal
         = summary.totalCorportalPayments
    /\ summary.matchedPayments = Len(matches)
    /\ summary.partialMatches = Len(partialMatches)
    /\ summary.unmatchedCorportal =
         Cardinality({j \in DOMAIN exceptions : exceptions[j].type = "UNMATCHED_CORPORTAL"})
    /\ summary.totalCorportalPayments = Len(corportalPayments)

C4_Witness ==
  /\ pc = "done"
  /\ summary.totalCorportalPayments = 2
  /\ summary.partialMatches = 1
  /\ summary.unmatchedCorportal = 1

\* C5: in the finished report EXACT matches + FUZZY matches + unmatched posting
\* exceptions = posting rows
C5_PostingConservation ==
  pc = "done" =>
    summary.matchedPayments + summary.partialMatches + summary.unmatchedCCB
      = summary.totalCCBPayments

\* an intake row has a posting row with its composite key within daysTolerance
HasExactCounterpart(corp) ==
  \E ccb \in SeqToSet(ccbPayments) :
    /\ ccb.CONSUMER_ID = corp.CONSUMER_ID
    /\ ccb.AMOUNT = corp.AMOUNT
    /\ ccb.PAYMENT_MODE = corp.PAYMENT_MODE
    /\ DateGap(corp, ccb) <= daysTolerance

\* C6: an intake row with a same-key posting row within daysTolerance is, in the
\* finished report, in an EXACT match and in no FUZZY match and no exception
C6_ExactnessPrecedence ==
  pc = "done" =>
    \A corp \in SeqToSet(corportalPayments) :
      HasExactCounterpart(corp) =>
        /\ MatchesOfCorportal(matches, corp.CORPORTAL_ROWID) # {}
        /\ MatchesOfCorportal(partialMatches, corp.CORPORTAL_ROWID) = {}
        /\ \A j \in DOMAIN exceptions : exceptions[j].payment # corp

\* a same-key posting row at exactly daysTolerance days, next to a posting row
\* that differs in amount by one paisa (a fuzzy candidate)
C6_Witness ==
  /\ pc = "done"
  /\ includePartialMatches
  /\ daysTolerance = 1
  /\ Len(ccbPayments) = 2
  /\ \E corp \in SeqToSet(corportalPayments) :
       /\ HasExactCounterpart(corp)
       /\ \A ccb \in SeqToSet(ccbPayments) :
            exactKey(ccb) = exactKey(corp) => DateGap(corp, ccb) = 1
       /\ \E ccb \in SeqToSet(ccbPayments) :
            /\ ccb.CONSUMER_ID = corp.CONSUMER_ID
            /\ ccb.PAYMENT_MODE = corp.PAYMENT_MODE
            /\ ccb.AMOUNT # corp.AMOUNT
            /\ ccb.POSTING_DATE = corp.PAYMENT_DATE

\* the ranked candidates of an intake row of the fuzzy phase
RankedCandidates(corp) ==
  findFuzzyMatches(corp, unmatchedCCB, amountTolerance, daysTolerance)

\* 0.8, in the unit of the scores
PointEight == (8 * ScoreDen(daysTolerance)) \div 10

\* C7: for an intake row of the fuzzy phase whose top-ranked candidate scores s,
\* a FUZZY match (with that candidate) is recorded iff s >= 0.8; below 0.8 the
\* row is left unmatched and becomes an exception
C7_ThresholdBoundary ==
  pc = "done" /\ includePartialMatches =>
    \A corp \in SeqToSet(unmatchedCorportal) :
      LET ranked == RankedCandidates(corp)
          recorded == {j \in DOMAIN partialMatches :
                         partialMatches[j].corportalPayment = corp}
      IN /\ \A j \in DOMAIN ranked : ranked[j].score <= ranked[1].score
         /\ (ranked # <<>> /\ ranked[1].score >= PointEight) =>
              /\ Cardinality(recorded) = 1
              /\ \A j \in recorded :
                   /\ partialMatches[j].ccbPayment = ranked[1].payment
                   /\ partialMatches[j].matchScore = ranked[1].score
         /\ (ranked # <<>> /\ ranked[1].score < PointEight) =>
              /\ recorded = {}
              /\ CorportalExceptionsOf(corp.CORPORTAL_ROWID) # {}

\* one intake row accepted and one rejected by the threshold in the same run
C7_Witness ==
  /\ pc = "done"
  /\ \E a, b \in SeqToSet(unmatchedCorportal) :
       /\ RankedCandidates(a) # <<>>
       /\ RankedCandidates(a)[1].score >= PointEight
       /\ MatchesOfCorportal(partialMatches, a.CORPORTAL_ROWID) # {}
       /\ RankedCandidates(b) # <<>>
       /\ RankedCandidates(b)[1].score < PointEight
       /\ CorportalExceptionsOf(b.CORPORTAL_ROWID) # {}

\* C10: in every match, EXACT or FUZZY, the two dates differ by at most
\* daysTolerance
C10_EveryMatchWithinDaysTolerance ==
  \A m \in SeqToSet(matches) \cup SeqToSet(partialMatches) :
    DateGap(m.corportalPayment, m.ccbPayment) <= daysTolerance

\* the part of C10 the exact matcher does enforce: in every EXACT match the two
\* dates differ by at most daysTolerance
ExactMatchWithinDaysTolerance ==
  \A m \in SeqToSet(matches) :
    DateGap(m.corportalPayment, m.ccbPayment) <= daysTolerance

\* the factors of the score as the sum claimed, times 100 * daysTolerance
ClaimedConsumerFactor(corp, ccb) == IF corp.CONSUMER_ID = ccb.CONSUMER_ID THEN 40 ELSE 0

ClaimedModeFactor(corp, ccb) == IF corp.PAYMENT_MODE = ccb.PAYMENT_MODE THEN 30 ELSE 0

ClaimedAmountFactor(corp, ccb) ==
  IF Abs(corp.AMOUNT - ccb.AMOUNT) <= amountTolerance THEN 25
  ELSE IF 100 * Abs(corp.AMOUNT - ccb.AMOUNT) <= corp.AMOUNT THEN 15
  ELSE 0

\* 100 * daysTolerance * 0.05 * (1 - gap / daysTolerance)
ClaimedDateFactorTimesTolerance(corp, ccb) ==
  IF DateGap(corp, ccb) <= daysTolerance THEN 5 * (daysTolerance - DateGap(corp, ccb)) ELSE 0

C8_Example ==
  /\ corportalPayments[1].CONSUMER_ID = "C1" /\ ccbPayments[1].CONSUMER_ID = "C1"
  /\ corportalPayments[1].PAYMENT_MODE = "BBPS" /\ ccbPayments[1].PAYMENT_MODE = "BBPS"
  /\ corportalPayments[1].AMOUNT = 100000 /\ ccbPayments[1].AMOUNT = 100001
  /\ ccbPayments[1].POSTING_DATE = corportalPayments[1].PAYMENT_DATE + 1
  /\ amountTolerance = 1
  /\ daysTolerance = 2

SameKeyPositions(corp) == {j \in DOMAIN ccbPayments : exactKey(ccbPayments[j]) = exactKey(corp)}

QualifyingPositions(corp) ==
  {j \in SameKeyPositions(corp) : DateGap(corp, ccbPayments[j]) <= daysTolerance}

\* the closest qualifying posting row, the earliest-inserted one among equals
ClaimedBest(corp) ==
  CHOOSE j \in QualifyingPositions(corp) :
    \A k \in QualifyingPositions(corp) :
      \/ DateGap(corp, ccbPayments[j]) < DateGap(corp, ccbPayments[k])
      \/ DateGap(corp, ccbPayments[j]) = DateGap(corp, ccbPayments[k]) /\ j <= k

\* C9: the exact matcher pairs an intake row with the same-key posting row of
\* smallest date gap among those within daysTolerance, the earliest-inserted one
\* on a tie; with no such row it records no match and the intake row goes to the
\* fuzzy phase
C9_BestDateMatch ==
  pc # "exact" =>
    LET corp == corportalPayments[1]
    IN IF QualifyingPositions(corp) = {}
       THEN /\ matches = <<>>
            /\ pc = "fuzzy" => unmatchedCorportal = <<corp>>
       ELSE /\ Len(matches) = 1
            /\ matches[1].corportalPayment = corp
            /\ matches[1].ccbPayment = ccbPayments[ClaimedBest(corp)]

\* two same-key posting rows at the same, smallest gap, behind a third one
\* further away: the earlier of the two is paired
C9_Witness ==
  /\ pc = "done"
  /\ Len(matches) = 1
  /\ \E j, k \in QualifyingPositions(corportalPayments[1]) :
       /\ j < k
       /\ ccbPayments[j].POSTING_DATE # ccbPayments[k].POSTING_DATE
       /\ DateGap(corportalPayments[1], ccbPayments[j])
            = DateGap(corportalPayments[1], ccbPayments[k])
       /\ matches[1].ccbPayment = ccbPayments[j]
       /\ \E l \in QualifyingPositions(corportalPayments[1]) :
            DateGap(corportalPayments[1], ccbPayments[l])
              > DateGap(corportalPayments[1], ccbPayments[j])

\* an intake row, a posting row, is claimed when some match of either kind pairs it
CorportalClaimed(id) ==
  MatchesOfCorportal(matches, id) \cup MatchesOfCorportal(partialMatches, id) # {}

CCBClaimed(id) ==
  MatchesOfCCB(matches, id) \cup MatchesOfCCB(partialMatches, id) # {}

\* C11: in the finished report every unclaimed intake row has exactly one
\* UNMATCHED_CORPORTAL exception, every unclaimed posting row exactly one
\* UNMATCHED_CCB exception, a claimed row has none, the list holds nothing
\* else, and empty inputs give an empty list
C11_ExceptionClassification ==
  pc = "done" =>
    /\ \A p \in SeqToSet(corportalPayments) :
         Cardinality(CorportalExceptionsOf(p.CORPORTAL_ROWID))
           = IF CorportalClaimed(p.CORPORTAL_ROWID) THEN 0 ELSE 1
    /\ \A p \in SeqToSet(ccbPayments) :
         Cardinality(CCBExceptionsOf(p.CCB_ROWID))
           = IF CCBClaimed(p.CCB_ROWID) THEN 0 ELSE 1
    /\ \A j \in DOMAIN exceptions :
         \/ /\ exceptions[j].type = "UNMATCHED_CORPORTAL"
            /\ exceptions[j].payment \in SeqToSet(corportalPayments)
         \/ /\ exceptions[j].type = "UNMATCHED_CCB"
            /\ exceptions[j].payment \in SeqToSet(ccbPayments)
    /\ (corportalPayments = <<>> /\ ccbPayments = <<>>) => exceptions = <<>>

\* a report with a claimed posting row and an unclaimed one, which is the
\* only exception
C11_Witness ==
  /\ pc = "done"
  /\ Len(ccbPayments) = 2
  /\ \E p, q \in SeqToSet(ccbPayments) :
       /\ CCBClaimed(p.CCB_ROWID)
       /\ ~CCBClaimed(q.CCB_ROWID)
       /\ exceptions = <<UnmatchedCCBException(q, 2)>>

\* settlementAllowance of the aging rule
SettlementAllowance(mode) == IF mode = "BANK_COUNTER" THEN 1 ELSE 2

C13_MatchCarriesScoreAndDateDifference ==
  \A m \in SeqToSet(matches) \cup SeqToSet(partialMatches) :
    /\ "matchScore" \in DOMAIN m
    /\ m.matchScore > 0
    /\ m.matchScore <= ScoreDen(daysTolerance)
    /\ m.type = "EXACT_MATCH" => m.matchScore = ScoreDen(daysTolerance)
    /\ "dateDifference" \in DOMAIN m
    /\ m.dateDifference = m.ccbPayment.POSTING_DATE - m.corportalPayment.PAYMENT_DATE

\* the part of C13 that holds: the scores of all matches, and the date
\* difference of the EXACT ones
ExactMatchCarriesScoreAndDateDifference ==
  /\ \A m \in SeqToSet(matches) :
       /\ m.type = "EXACT_MATCH"
       /\ m.matchScore = ScoreDen(daysTolerance)
       /\ m.dateDifference = m.ccbPayment.POSTING_DATE - m.corportalPayment.PAYMENT_DATE
  /\ \A m \in SeqToSet(partialMatches) :
       /\ m.type = "FUZZY_MATCH"
       /\ m.matchScore >= MinConfidence(daysTolerance)
       /\ m.matchScore <= ScoreDen(daysTolerance)

\* C14: a FUZZY match pairs an intake row only with a posting row whose
\* rounded amount is the intake row's or next to it
C14_FuzzyWithinAdjacentBuckets ==
  \A m \in SeqToSet(partialMatches) :
    \E k \in DOMAIN createPaymentIndex(ccbPayments).byAmount :
      /\ Abs(k - amountKey(m.corportalPayment)) <= 1
      /\ m.ccbPayment \in SeqToSet(createPaymentIndex(ccbPayments).byAmount[k])

RECURSIVE SumIntakeAmount(_)
SumIntakeAmount(ms) ==
  IF ms = <<>> THEN 0
  ELSE Head(ms).corportalPayment.AMOUNT + SumIntakeAmount(Tail(ms))

\* C15 as stated: in the finished report the matched count is the number of
\* EXACT plus FUZZY matches and the matched amount is the sum of the intake
\* amounts over all of them
C15_MatchedCoversBothKinds ==
  pc = "done" =>
    /\ summary.matchedPayments = Len(matches) + Len(partialMatches)
    /\ summary.matchedAmount = SumIntakeAmount(matches) + SumIntakeAmount(partialMatches)

\* C15: in the finished report matchedPayments and matchedAmount cover the
\* EXACT matches only: the count of the EXACT matches and the sum of their
\* intake amounts; a FUZZY match is counted in partialMatches and its amount
\* enters no summary field
C15_MatchedCoversExactOnly ==
  pc = "done" =>
    /\ summary.matchedPayments = Len(matches)
    /\ summary.matchedAmount = SumIntakeAmount(matches)
    /\ summary.partialMatches = Len(partialMatches)

\* a finished report whose only match is a FUZZY one: nothing is counted as
\* matched
C15_Witness ==
  /\ pc = "done"
  /\ matches = <<>>
  /\ Len(partialMatches) = 1
  /\ summary.matchedPayments = 0
  /\ summary.matchedAmount = 0
  /\ summary.partialMatches = 1

\* the percentage zero
Zero == [num |-> 0, den |-> 1]

\* C16: reconciliationEfficiency is matched count / intake count * 100 and
\* amountReconciliationRate is matched amount / intake amount * 100; each is 0
\* when its denominator is 0
C16_RatesZeroOnEmptyIntake ==
  pc = "stats" =>
    /\ ret.reconciliationEfficiency =
         IF summary.totalCorportalPayments = 0 THEN Zero
         ELSE [num |-> 100 * summary.matchedPayments,
               den |-> summary.totalCorportalPayments]
    /\ ret.amountReconciliationRate =
         IF summary.totalCorportalAmount = 0 THEN Zero
         ELSE [num |-> 100 * summary.matchedAmount,
               den |-> summary.totalCorportalAmount]

\* the part of C16 that holds: the two rates when there is an intake row
RatesOnNonEmptyIntake ==
  (pc = "stats" /\ corportalPayments # <<>>) =>
    /\ ret.reconciliationEfficiency =
         [num |-> 100 * Len(matches), den |-> Len(corportalPayments)]
    /\ ret.amountReconciliationRate =
         [num |-> 100 * SumIntakeAmount(matches), den |-> SumAmount(corportalPayments)]

\* |posting date - intake date| summed over a list of matches
RECURSIVE SumDateGap(_)
SumDateGap(ms) ==
  IF ms = <<>> THEN 0
  ELSE DateGap(Head(ms).corportalPayment, Head(ms).ccbPayment) + SumDateGap(Tail(ms))

\* the mean of n over k in tenths, rounded to the nearest
MeanTenths(n, k) == (20 * n + k) \div (2 * k)

\* C17 as stated: avgSettlementDays is the mean of |dateDifference| over all
\* matches, EXACT and FUZZY, and 0 when there is none
C17_AverageOverAllMatches ==
  pc = "stats" =>
    ret.avgSettlementDays.tenths =
      IF Len(matches) + Len(partialMatches) = 0 THEN 0
      ELSE MeanTenths(SumDateGap(matches) + SumDateGap(partialMatches),
                      Len(matches) + Len(partialMatches))

\* C17: avgSettlementDays is the mean of |dateDifference| over the EXACT
\* matches, to one decimal, and 0 when there is no EXACT match; the FUZZY
\* matches do not enter it
C17_AverageOverExactMatches ==
  pc = "stats" =>
    ret.avgSettlementDays.tenths =
      IF Len(matches) = 0 THEN 0
      ELSE MeanTenths(SumDateGap(matches), Len(matches))

\* statistics over one EXACT match whose posting is a day before its intake
C17_Witness ==
  /\ pc = "stats"
  /\ Len(matches) = 1
  /\ matches[1].dateDifference = -1
  /\ ret.avgSettlementDays = [type |-> "string", tenths |-> 10]

\* the rows of a payment mode in a result set
RowsOfMode(payments, mode) == {j \in DOMAIN payments : payments[j].PAYMENT_MODE = mode}

\* the amounts of the rows at a set of positions, summed
RECURSIVE SumAmountAt(_, _)
SumAmountAt(payments, positions) ==
  IF positions = {} THEN 0
  ELSE LET j == CHOOSE k \in positions : TRUE
       IN payments[j].AMOUNT + SumAmountAt(payments, positions \ {j})

\* C18: the breakdown by payment mode has exactly the six modes of the enum;
\* a mode without rows has zero counts and amounts; the variance of a mode is
\* its intake amount minus its posting amount
C18_SixModeBreakdown ==
  pc = "summarised" =>
    /\ DOMAIN ret.byPaymentMode =
         {"BANK_COUNTER", "BILLSAHULIYAT_PLUS", "SMART_BS", "JK_BANK_MPAY", "BBPS",
          "POS_MACHINES"}
    /\ \A mode \in DOMAIN ret.byPaymentMode :
         LET entry == ret.byPaymentMode[mode]
         IN /\ entry.corportalCount = Cardinality(RowsOfMode(corportalPayments, mode))
            /\ entry.ccbCount = Cardinality(RowsOfMode(ccbPayments, mode))
            /\ entry.corportalCount = 0 => entry.corportalAmount = 0
            /\ entry.ccbCount = 0 => entry.ccbAmount = 0
            /\ entry.corportalAmount =
                 SumAmountAt(corportalPayments, RowsOfMode(corportalPayments, mode))
            /\ entry.ccbAmount = SumAmountAt(ccbPayments, RowsOfMode(ccbPayments, mode))
            /\ entry.variance = entry.corportalAmount - entry.ccbAmount

\* rows of BBPS only, with more posted than taken in: a negative variance for
\* BBPS and an all-zero entry for each of the other five modes
C18_Witness ==
  /\ pc = "summarised"
  /\ ret.byPaymentMode["BBPS"].variance < 0
  /\ ret.byPaymentMode["BBPS"].corportalCount = 1
  /\ \A mode \in DOMAIN ret.byPaymentMode \ {"BBPS"} :
       ret.byPaymentMode[mode] =
         [corportalAmount |-> 0, ccbAmount |-> 0, corportalCount |-> 0, ccbCount |-> 0,
          variance |-> 0]

\* C19: a second call on the same rows with the same options returns the
\* report the first call returned: matches, order, exceptions with their age
\* and requiresAction, and summary
C19_SameReportTwice ==
  (pc = "done" /\ firstReport # Null) => Report = firstReport

\* what of C19 holds: the two reports agree in everything that does not
\* depend on the day of the call
SameReportUpToTheDayOfTheCall ==
  (pc = "done" /\ firstReport # Null) =>
    /\ matches = firstReport.matches
    /\ partialMatches = firstReport.partialMatches
    /\ Len(exceptions) = Len(firstReport.exceptions)
    /\ \A j \in DOMAIN exceptions :
         /\ exceptions[j].type = firstReport.exceptions[j].type
         /\ exceptions[j].payment = firstReport.exceptions[j].payment
    /\ [summary EXCEPT !.processingDate = 0]
         = [firstReport.summary EXCEPT !.processingDate = 0]

\* C20: once the fetch of either source has failed, the call builds no report
\* at any time - no summary, no match, no exception - and when it has ended it
\* has thrown the error of a failed fetch, whatever the other fetch did
C20_FetchFailureFailsTheCall ==
  (fetch.corportal = "rejected" \/ fetch.ccb = "rejected") =>
    /\ pc \in {"fetch", "failed"}
    /\ summary = Null
    /\ matches = <<>>
    /\ partialMatches = <<>>
    /\ exceptions = <<>>
    /\ pc = "failed" =>
         /\ ret \in {[error |-> "corportal"], [error |-> "ccb"]}
         /\ fetch[ret.error] = "rejected"

\* the posting query has failed after the intake query returned its row: the
\* call has thrown the error of the posting query
C20_Witness ==
  /\ pc = "failed"
  /\ fetch.corportal = "resolved"
  /\ fetch.ccb = "rejected"
  /\ Len(corportalPayments) = 1
  /\ ret = [error |-> "ccb"]

\* a tolerance below zero among the options a route reads (GET /export reads none)
NegativeTolerance ==
  /\ req.route # "GET /export"
  /\ \/ "amountTolerance" \in DOMAIN req.options /\ req.options.amountTolerance < 0
     \/ "daysTolerance" \in DOMAIN req.options /\ req.options.daysTolerance < 0

\* both dates given and valid, the first after the second
InvertedRange ==
  /\ req.fromDate.kind = "date"
  /\ req.toDate.kind = "date"
  /\ req.fromDate.day > req.toDate.day

\* C21: a request with a negative tolerance or an inverted date range never
\* gets as far as a report - no phase of the engine runs on it - and the only
\* answer it gets is the validation error
C21_MalformedParametersRejected ==
  (NegativeTolerance \/ InvertedRange) =>
    /\ pc \notin {"exact", "fuzzy", "done"}
    /\ res # Null => res = BadRequest

\* the part of C21 that holds: GET /detailed-reconciliation rejects an
\* inverted date range
DetailedRouteRejectsInvertedRange ==
  (req.route = "GET /detailed-reconciliation" /\ InvertedRange) =>
    /\ pc \in {"request", "responded"}
    /\ res # Null => res = BadRequest

\* both dates present and valid, the first not after the second, at most 90
\* days apart
WellFormedRange(from, to) ==
  /\ from.kind = "date"
  /\ to.kind = "date"
  /\ from.day <= to.day
  /\ to.day - from.day <= 90

\* C23: the engine is only ever called with a well-formed date range of at
\* most 90 days, and a request without one is answered 400
C23_EngineCalledOnValidRangeOnly ==
  /\ args # Null => WellFormedRange(args.fromDate, args.toDate)
  /\ (res # Null /\ ~WellFormedRange(req.fromDate, req.toDate)) => res = BadRequest

\* the part of C23 that holds: the route behind validateDateRange
DetailedRouteValidatesRange ==
  req.route = "GET /detailed-reconciliation" =>
    /\ args # Null => WellFormedRange(args.fromDate, args.toDate)
    /\ (res # Null /\ ~WellFormedRange(req.fromDate, req.toDate)) => res = BadRequest
    /\ (pc = "responded" /\ WellFormedRange(req.fromDate, req.toDate)) =>
         res.status \in {200, 500}


\* a row the specification calls malformed
InvalidRow(p) == p.AMOUNT <= 0 \/ p.CONSUMER_ID = ""

SomeInvalidRow ==
  \/ \E j \in DOMAIN corportalPayments : InvalidRow(corportalPayments[j])
  \/ \E j \in DOMAIN ccbPayments : InvalidRow(ccbPayments[j])

\* C22: a raw row whose amount is zero or below, or whose consumer id is
\* empty, makes the reconciliation fail: no report is produced, and the row
\* is in no match, no total and no exception.
C22_InvalidRowFailsTheCall ==
  SomeInvalidRow =>
    /\ pc # "done"
    /\ matches = <<>> /\ partialMatches = <<>> /\ exceptions = <<>>
    /\ summary.totalCorportalAmount = 0 /\ summary.totalCCBAmount = 0


\* the engine has its inputs and works on them
Engaged == pc \in {"exact", "fuzzy", "done"}

\* C24: the two queries settle in either order; the engine sums, indexes and
\* matches only once both have returned, and then, whichever returned first,
\* the intake list holds the intake rows and the posting list the posting rows,
\* which the summary counts - the report is built from the same inputs in both
\* orders.
C24_BothFetchesBeforeIndexing ==
  /\ Engaged =>
       /\ fetch.corportal = "resolved" /\ fetch.ccb = "resolved"
       /\ fetch.order \in {<<"corportal", "ccb">>, <<"ccb", "corportal">>}
       /\ \A j \in DOMAIN corportalPayments :
            DOMAIN corportalPayments[j]
              = {"CONSUMER_ID", "PAYMENT_MODE", "AMOUNT", "PAYMENT_DATE", "CORPORTAL_ROWID"}
       /\ \A j \in DOMAIN ccbPayments :
            DOMAIN ccbPayments[j]
              = {"CONSUMER_ID", "PAYMENT_MODE", "AMOUNT", "POSTING_DATE", "CCB_ROWID"}
       /\ summary.totalCorportalPayments = Len(corportalPayments)
       /\ summary.totalCCBPayments = Len(ccbPayments)
  /\ ~Engaged => summary = Null /\ matches = <<>> /\ exceptions = <<>>

\* the posting query returned before the intake query, and the call ended
\* with the intake row matched to the posting row
C24_Witness ==
  /\ pc = "done"
  /\ fetch.order = <<"ccb", "corportal">>
  /\ Len(matches) = 1
  /\ matches[1].corportalPayment = corportalPayments[1]
  /\ matches[1].ccbPayment = ccbPayments[1]


\* the rows of a list that no EXACT match pairs, in the order of the list
NotInExactCorportal ==
  SelectSeq(corportalPayments,
            LAMBDA p : MatchesOfCorportal(matches, p.CORPORTAL_ROWID) = {})

NotInExactCCB ==
  SelectSeq(ccbPayments, LAMBDA p : MatchesOfCCB(matches, p.CCB_ROWID) = {})

\* C25: while the exact loop runs there is no FUZZY match; when the fuzzy
\* phase runs the exact loop has visited every intake row (each row with a
\* same-key posting row within daysTolerance is in an EXACT match), its pools
\* are exactly the intake and posting rows no EXACT match pairs, and no row is
\* in both an EXACT and a FUZZY match.
C25_ExactThenFuzzy ==
  /\ pc = "exact" => partialMatches = <<>>
  /\ pc = "fuzzy" =>
       /\ \A corp \in SeqToSet(corportalPayments) :
            HasExactCounterpart(corp) =>
              MatchesOfCorportal(matches, corp.CORPORTAL_ROWID) # {}
       /\ unmatchedCorportal = NotInExactCorportal
       /\ unmatchedCCB = NotInExactCCB
  /\ \A j \in DOMAIN partialMatches :
       /\ MatchesOfCorportal(matches, partialMatches[j].corportalPayment.CORPORTAL_ROWID) = {}
       /\ MatchesOfCCB(matches, partialMatches[j].ccbPayment.CCB_ROWID) = {}

\* the exact loop paired one intake row with the only posting row; the fuzzy
\* phase has visited the other intake row, one paisa away from that posting
\* row and of the same consumer and mode, and left it unmatched
C25_Witness ==
  /\ pc = "fuzzy"
  /\ idx = 2
  /\ amountTolerance = 1
  /\ Len(matches) = 1
  /\ Len(unmatchedCorportal) = 1
  /\ unmatchedCCB = <<>>
  /\ partialMatches = <<>>
  /\ unmatchedCorportal[1].CONSUMER_ID = matches[1].ccbPayment.CONSUMER_ID
  /\ unmatchedCorportal[1].PAYMENT_MODE = matches[1].ccbPayment.PAYMENT_MODE
  /\ Abs(unmatchedCorportal[1].AMOUNT - matches[1].ccbPayment.AMOUNT) = 1


\* C26: with includePartialMatches false the fuzzy phase never runs: there is
\* no FUZZY match at any time, summary.partialMatches stays 0, and in the
\* finished report every intake or posting row that no EXACT match pairs is
\* the payment of one exception of its side, which the summary counts.
C26_NoFuzzyPhaseWhenDisabled ==
  ~includePartialMatches =>
    /\ pc # "fuzzy"
    /\ partialMatches = <<>>
    /\ summary.partialMatches = 0
    /\ pc = "done" =>
         /\ \A j \in DOMAIN NotInExactCorportal :
              Cardinality(CorportalExceptionsOf(NotInExactCorportal[j].CORPORTAL_ROWID)) = 1
         /\ \A j \in DOMAIN NotInExactCCB :
              Cardinality(CCBExceptionsOf(NotInExactCCB[j].CCB_ROWID)) = 1
         /\ summary.unmatchedCorportal = Len(NotInExactCorportal)
         /\ summary.unmatchedCCB = Len(NotInExactCCB)
         /\ Len(exceptions) = Len(NotInExactCorportal) + Len(NotInExactCCB)

\* fuzzy matching is off; an intake row and a posting row of the same consumer
\* and mode, on the same day and one paisa apart with a tolerance of one paisa,
\* are both reported as exceptions
C26_Witness ==
  /\ pc = "done"
  /\ ~includePartialMatches
  /\ amountTolerance = 1
  /\ daysTolerance = 1
  /\ Len(corportalPayments) = 1
  /\ Len(ccbPayments) = 1
  /\ corportalPayments[1].CONSUMER_ID = ccbPayments[1].CONSUMER_ID
  /\ corportalPayments[1].PAYMENT_MODE = ccbPayments[1].PAYMENT_MODE
  /\ corportalPayments[1].PAYMENT_DATE = ccbPayments[1].POSTING_DATE
  /\ Abs(corportalPayments[1].AMOUNT - ccbPayments[1].AMOUNT) = 1
  /\ matches = <<>>
  /\ Len(exceptions) = 2


\* C27: every FUZZY match pairs rows of the same consumer and the same
\* payment mode whose amounts differ by at most the larger of amountTolerance
\* and 1% of the intake amount.
C27_FuzzyMatchAgreesOnConsumerModeAmount ==
  \A j \in DOMAIN partialMatches :
    LET corp == partialMatches[j].corportalPayment
        ccb == partialMatches[j].ccbPayment
        amountDiff == Abs(corp.AMOUNT - ccb.AMOUNT)
    IN /\ corp.CONSUMER_ID = ccb.CONSUMER_ID
       /\ corp.PAYMENT_MODE = ccb.PAYMENT_MODE
       /\ \/ amountDiff <= amountTolerance
          \/ 100 * amountDiff <= corp.AMOUNT

\* a FUZZY match accepted on the 1% tier: 1000.00 against 1005.00 with a
\* tolerance of at most one rupee
C27_Witness ==
  /\ pc = "done"
  /\ Len(partialMatches) = 1
  /\ partialMatches[1].corportalPayment.AMOUNT = 100000
  /\ partialMatches[1].ccbPayment.AMOUNT = 100500
  /\ partialMatches[1].amountDifference > amountTolerance


\* the score of the scored pair with the posting date moved one day further
\* from the intake date
ScoreOneDayFurther ==
  LET corp == corportalPayments[1]
      ccb == ccbPayments[1]
      further == IF ccb.POSTING_DATE >= corp.PAYMENT_DATE
                 THEN ccb.POSTING_DATE + 1 ELSE ccb.POSTING_DATE - 1
  IN calculateMatchScore(corp, ccb, corp.AMOUNT, ccb.AMOUNT, corp.PAYMENT_DATE, further,
                         amountTolerance, daysTolerance)

\* C28: for every daysTolerance >= 0 the score of a pair is a number, and it
\* is at least the score of the same pair dated one day further apart.
C28_ScoreDefinedAndMonotoneInDays ==
  pc = "scored" =>
    /\ ret # NaN
    /\ ret >= ScoreOneDayFurther

\* the same with daysTolerance >= 1, where the code's quotient is defined
ScoreMonotoneInDaysForPositiveTolerance ==
  pc = "scored" /\ daysTolerance >= 1 =>
    /\ ret # NaN
    /\ ret >= ScoreOneDayFurther


\* the calls of executeQuery made so far
Calls == {db.calls[k] : k \in DOMAIN db.calls}

Settled(call) == call.pc \in {"returned", "thrown"}

\* C29: a call of executeQuery closes the connection it acquired exactly once
\* before it settles, whether the query returned rows or threw; a call that
\* acquired no connection - its pool is null or closed, or getConnection
\* rejected - closes nothing and throws.
C29_ConnectionClosedExactlyOnce ==
  \A call \in Calls :
    /\ call.closes <= 1
    /\ call.closes = 1 => call.connection /\ call.pc \in {"returned", "thrown"}
    /\ Settled(call) => call.closes = (IF call.connection THEN 1 ELSE 0)
    /\ call.pc = "returned" => call.connection /\ ~call.error
    /\ ~call.connection /\ Settled(call) => call.pc = "thrown" /\ call.error
    /\ call.pool # "open" => ~call.connection

\* the pools were never initialised: of the two queries of a reconciliation
\* one has thrown without a connection and without a close; and a query whose
\* execute threw has closed its connection and thrown
C29_Witness ==
  /\ \E call \in Calls :
       /\ call.pool = "null"
       /\ call.pc = "thrown"
       /\ call.closes = 0
  /\ \E call \in Calls :
       /\ call.connection
       /\ call.error
       /\ call.pc = "thrown"
       /\ call.closes = 1

\* the open pools of a database: the one its field refers to, and the dropped
OpenPools(d) == db.dropped[d] + (IF PoolOf(db, d) = "open" THEN 1 ELSE 0)

\* C30: at any time a database has at most one open pool, and after the final
\* closePools it has none.
C30_AtMostOneOpenPool ==
  \A d \in Databases :
    /\ OpenPools(d) <= 1
    /\ db.phase = "exited" => OpenPools(d) = 0

\* start-up alone, whether it fails half-way or not, leaks no pool
StartUpAloneLeaksNoPool ==
  db.initializations = 0 => C30_AtMostOneOpenPool

====
